---- MODULE Spec2Model ----
(***************************************************************************)
(* State-machine model of recap's data layer: the IndexedDB local store    *)
(* (lib/indexedDB), the Supabase remote tables (SettingsModal's setup      *)
(* SQL), the React Query hooks over them (useCheatsheets,                  *)
(* useSyntaxEntries), the editor's handlers and the AppContext             *)
(* configuration.  Every await of a hook is a step boundary: an operation  *)
(* in flight is a record with a program counter.                           *)
(***************************************************************************)
EXTENDS Integers, Sequences, FiniteSets, TLC

\* ---------------------------------------------------------------- bounds
MaxCheatsheets == 2
MaxEntries == 2
MaxEditorEntries == 1
MaxTime == 1
MaxToasts == 1
MaxResponseLen == 4
MaxDragEntries == 3
MaxSerialEntries == 3

\* ------------------------------------------------------------- constants
\* position INTEGER NOT NULL DEFAULT 0 / reduce(..., -1): the value
\* handleSaveEntry starts its maximum from.
NoPosition == -1

CheatsheetIds == 1..MaxCheatsheets
EntryIds == 1..MaxEntries

\* Form inputs of the create-cheatsheet dialog (title, description).
CheatsheetInputs == { [title |-> "JS Basics", description |-> "notes"] }

\* Form inputs of the add-entry dialog: the one the list view's session
\* uses, and those of the editor's session (two sortable groups).
ArrayMapInput ==
    [syntax |-> "Array.map()", category |-> "Arrays", description |-> "maps",
     example |-> "xs.map(f)", display_format |-> "card", language |-> "javascript"]

EntryInputs ==
    { ArrayMapInput,
      [syntax |-> "SELECT", category |-> "Queries", description |-> "",
       example |-> "", display_format |-> "table", language |-> "sql"] }

\* An optional value (T | null, T | undefined) is a set with at most one member.
Null == {}
Some(x) == {x}
The(s) == CHOOSE x \in s : TRUE

\* An AppConfig string field is Null or Some(text); a text is a sequence of
\* tokens, " " being a whitespace character.
RemoteUrlText == <<"https://x.supabase.co">>
AnonKeyText == <<"anon-key">>
GeminiKeyText == <<"gemini-key">>
EmptyConfig == [supabaseUrl |-> Null, supabaseAnonKey |-> Null, geminiApiKey |-> Null]

VARIABLES
    config,             \* AppContext: useState<AppConfig>
    configLoaded,       \* AppContext: useState(false)
    supabaseClient,     \* AppContext: Null or Some(client handle)
    user,               \* AppContext: Null or Some(user id)
    session,            \* AppContext: Null or Some(session)
    isLoading,          \* AppContext: useState(true)
    effects,            \* AppContext: effects and requests that are yet to run
    configStore,        \* IndexedDB store "config": the value under "app-config"
    form,               \* SettingsModal: the text of its three inputs
    now,                \* the clock new Date() / now() reads
    localCheatsheets,   \* IndexedDB store "cheatsheets": id -> record
    localEntries,       \* IndexedDB store "entries": id -> record
    remoteCheatsheets,  \* table public.cheatsheets: id -> row
    remoteEntries,      \* table public.syntax_entries: id -> row
    usedCheatsheetIds,  \* ids generateId()/gen_random_uuid() has handed out
    usedEntryIds,
    selectedCheatsheet, \* Index: useState<string | null>
    cheatsheetsQuery,   \* React Query cache of ["cheatsheets", view, mode]: ids of its rows
    entriesQuery,       \* React Query cache of ["entries", id, mode]
    purgeOp,            \* usePermanentDeleteCheatsheet mutation in flight
    toggleOp,           \* useSoftDeleteCheatsheet / useRestoreCheatsheet in flight
    createOp,           \* useCreateEntry mutation in flight
    reorderOp,          \* useReorderEntries mutation in flight
    concurrency,        \* how many mutations the session lets run at once
    listForm,           \* CheatsheetList: useState of the create dialog (title, description)
    editorForm,         \* CheatsheetEditor: useState of the add and edit dialogs
    toasts,             \* use-toast: the validation and error notifications shown so far
    updateOp,           \* useUpdateEntry mutation in flight
    generateOp          \* useAIGenerate: generate() call in flight

appVars == <<config, configLoaded, supabaseClient, user, session, isLoading, effects,
             configStore, form>>
dataVars == <<now, localCheatsheets, localEntries, remoteCheatsheets, remoteEntries,
              usedCheatsheetIds, usedEntryIds, selectedCheatsheet, cheatsheetsQuery,
              entriesQuery, purgeOp, toggleOp, createOp, reorderOp, concurrency>>
localVars == <<localCheatsheets, localEntries>>
remoteVars == <<remoteCheatsheets, remoteEntries>>
idVars == <<usedCheatsheetIds, usedEntryIds>>
opVars == <<purgeOp, toggleOp, createOp, reorderOp>>
dialogVars == <<listForm, editorForm, toasts, updateOp, generateOp>>
vars == <<config, configLoaded, supabaseClient, user, session, isLoading, effects,
          configStore, form, now,
          localCheatsheets, localEntries, remoteCheatsheets, remoteEntries,
          usedCheatsheetIds, usedEntryIds, selectedCheatsheet, cheatsheetsQuery,
          entriesQuery,
          purgeOp, toggleOp, createOp, reorderOp, concurrency,
          listForm, editorForm, toasts, updateOp, generateOp>>

\* generateId() / gen_random_uuid(): an id never handed out before; ids are
\* numbered in the order they are handed out.
FreshId(ids, used) == {id \in ids \ used : \A other \in ids \ used : id <= other}

\* ------------------------------------------------------------ AppContext
\* JavaScript truthiness of string | null: null and "" are falsy.
Truthy(v) == v # Null /\ The(v) # <<>>

ModeOf(cfg) ==
    IF Truthy(cfg.supabaseUrl) /\ Truthy(cfg.supabaseAnonKey) THEN "cloud" ELSE "guest"

mode == ModeOf(config)

\* const hasGemini = !!config.geminiApiKey
hasGemini == Truthy(config.geminiApiKey)

\* if (mode === "cloud" && supabaseClient): the branch test of the hooks.
UseRemote == mode = "cloud" /\ supabaseClient # Null
\* if (mode === "cloud" && supabaseClient && user)
UseRemoteAsUser == UseRemote /\ user # Null

\* The operations of the data hooks, and the branch test each makes when it
\* is issued: useCheatsheets and useCreateCheatsheet also need a user.
DataOperations ==
    {"listCheatsheets", "getCheatsheet", "createCheatsheet", "softDeleteCheatsheet",
     "restoreCheatsheet", "purgeCheatsheet", "listEntries", "createEntry", "updateEntry",
     "deleteEntry", "reorderEntries"}

RoutesRemote(op) ==
    IF op \in {"listCheatsheets", "createCheatsheet"} THEN UseRemoteAsUser ELSE UseRemote

IndexViewNoAuthGate ==
    IF ~configLoaded THEN "blank"
    ELSE IF isLoading THEN "loading"
    ELSE IF selectedCheatsheet # Null THEN "editor" ELSE "list"

\* What the page shows: AppProvider returns null until the config is loaded;
\* Index returns "Loading..." while isLoading, AuthForm in cloud mode without
\* a user, else CheatsheetEditor or CheatsheetList.
IndexView ==
    IF ~configLoaded THEN "blank"
    ELSE IF isLoading THEN "loading"
    ELSE IF mode = "cloud" /\ user = Null THEN "auth"
    ELSE IF selectedCheatsheet # Null THEN "editor" ELSE "list"

\* Index renders CheatsheetList or CheatsheetEditor, the components that
\* issue the data operations: the provider has loaded the config, isLoading
\* is false, and the mode is guest or a user is set.
ContentShown == configLoaded /\ ~isLoading /\ (mode = "guest" \/ user # Null)

\* configDB.get(): result?.value || { supabaseUrl: null, ... }
configDB_get == IF configStore = Null THEN EmptyConfig ELSE The(configStore)

\* useState(config.supabaseUrl || ""): the inputs as SettingsModal mounts.
OrEmpty(v) == IF Truthy(v) THEN The(v) ELSE <<>>
FormOf(cfg) ==
    [supabaseUrl |-> OrEmpty(cfg.supabaseUrl), supabaseAnonKey |-> OrEmpty(cfg.supabaseAnonKey),
     geminiApiKey |-> OrEmpty(cfg.geminiApiKey)]

\* String.prototype.trim()
RECURSIVE TrimStart(_)
TrimStart(text) ==
    IF text # <<>> /\ Head(text) = " " THEN TrimStart(Tail(text)) ELSE text
RECURSIVE TrimEnd(_)
TrimEnd(text) ==
    IF text # <<>> /\ text[Len(text)] = " "
    THEN TrimEnd(SubSeq(text, 1, Len(text) - 1)) ELSE text
Trim(text) == TrimEnd(TrimStart(text))

\* new URL(text) does not throw: the parser strips leading and trailing
\* whitespace and needs an absolute URL.
IsUrl(text) == Trim(text) = RemoteUrlText

\* setConfig(prev => ({ ...prev, ...newConfig }))
updateConfig(prev, newConfig) ==
    [k \in DOMAIN prev |-> IF k \in DOMAIN newConfig THEN newConfig[k] ELSE prev[k]]

\* The effects a setConfig schedules: the persist effect depends on the
\* config object, the client effect on the two strings.
EffectsOf(prev, next) ==
    {"persist"} \cup
    (IF prev.supabaseUrl # next.supabaseUrl \/ prev.supabaseAnonKey # next.supabaseAnonKey
     THEN {"init"} ELSE {})

\* configDB.get().then(storedConfig => { setConfig; setConfigLoaded(true) });
\* the provider then renders its children, SettingsModal among them.
LoadConfig ==
    /\ "load" \in effects
    /\ config' = configDB_get
    /\ configLoaded' = TRUE
    /\ form' = FormOf(configDB_get)
    /\ effects' = (effects \ {"load"}) \cup {"init", "persist"}
    /\ UNCHANGED <<supabaseClient, user, session, isLoading, configStore, dataVars, dialogVars>>

\* .catch(() => setConfigLoaded(true))
LoadConfigFail ==
    /\ "load" \in effects
    /\ configLoaded' = TRUE
    /\ form' = FormOf(config)
    /\ effects' = (effects \ {"load"}) \cup {"init", "persist"}
    /\ UNCHANGED <<config, supabaseClient, user, session, isLoading, configStore, dataVars, dialogVars>>

\* The effect on [config.supabaseUrl, config.supabaseAnonKey, configLoaded].
InitClient ==
    /\ "init" \in effects
    /\ configLoaded
    /\ IF Truthy(config.supabaseUrl) /\ Truthy(config.supabaseAnonKey)
       THEN IF IsUrl(The(config.supabaseUrl))
            THEN /\ supabaseClient' = Some("client")
                 /\ effects' = (effects \ {"init"}) \cup {"getSession"}
                 /\ UNCHANGED <<user, session, isLoading>>
            ELSE /\ supabaseClient' = Null
                 /\ isLoading' = FALSE
                 /\ effects' = effects \ {"init"}
                 /\ UNCHANGED <<user, session>>
       ELSE /\ supabaseClient' = Null
            /\ user' = Null
            /\ session' = Null
            /\ isLoading' = FALSE
            /\ effects' = effects \ {"init"}
    /\ UNCHANGED <<config, configLoaded, configStore, form, dataVars, dialogVars>>

GetSessionKeepsLoading(stored) ==
    /\ "getSession" \in effects
    /\ session' = stored
    /\ user' = IF stored = Null THEN Null ELSE Some("user-1")
    /\ effects' = effects \ {"getSession"}
    /\ UNCHANGED <<config, configLoaded, supabaseClient, isLoading, configStore, form,
                   dataVars, dialogVars>>

\* client.auth.getSession().then(({ data: { session } }) => ...): the check
\* resolves with the stored session, or with a null session when there is
\* none or the check fails (auth-js reports the error in the resolved value).
GetSession(stored) ==
    /\ "getSession" \in effects
    /\ session' = stored
    /\ user' = IF stored = Null THEN Null ELSE Some("user-1")
    /\ isLoading' = FALSE
    /\ effects' = effects \ {"getSession"}
    /\ UNCHANGED <<config, configLoaded, supabaseClient, configStore, form, dataVars, dialogVars>>

\* AuthForm signs in: onAuthStateChange((_event, session) => ...)
SignIn ==
    /\ mode = "cloud"
    /\ supabaseClient # Null
    /\ user = Null
    /\ ~isLoading
    /\ session' = Some("session-1")
    /\ user' = Some("user-1")
    /\ UNCHANGED <<config, configLoaded, supabaseClient, isLoading, effects, configStore,
                   form, dataVars, dialogVars>>

\* signOut(): setUser(null); setSession(null)
SignOut ==
    /\ configLoaded
    /\ ~isLoading
    /\ user # Null
    /\ user' = Null
    /\ session' = Null
    /\ UNCHANGED <<config, configLoaded, supabaseClient, isLoading, effects, configStore,
                   form, dataVars, dialogVars>>

\* The effect on [config, configLoaded]: if (configLoaded) configDB.set(config)
PersistConfig ==
    /\ "persist" \in effects
    /\ configLoaded
    /\ configStore' = Some(config)
    /\ effects' = effects \ {"persist"}
    /\ UNCHANGED <<config, configLoaded, supabaseClient, user, session, isLoading, form,
                   dataVars, dialogVars>>

\* configDB.clear(): store.delete("app-config")
ClearStore ==
    /\ "clear" \in effects
    /\ configStore' = Null
    /\ effects' = effects \ {"clear"}
    /\ UNCHANGED <<config, configLoaded, supabaseClient, user, session, isLoading, form,
                   dataVars, dialogVars>>

\* The page is loaded again: the provider's state is its initial state, the
\* IndexedDB store is what it was.
Reload ==
    /\ config' = EmptyConfig
    /\ configLoaded' = FALSE
    /\ supabaseClient' = Null
    /\ user' = Null
    /\ session' = Null
    /\ isLoading' = TRUE
    /\ form' = FormOf(EmptyConfig)
    /\ effects' = {"load"}
    /\ UNCHANGED <<configStore, dataVars, dialogVars>>

\* ---------------------------------------------------------- SettingsModal
\* Index renders SettingsModal once the provider has loaded the config and
\* isLoading is false; the modal keeps its inputs while it is mounted.
SettingsShown == configLoaded /\ ~isLoading

\* onChange of an input.
TypeText(field, text) ==
    /\ SettingsShown
    /\ form[field] # text
    /\ form' = [form EXCEPT ![field] = text]
    /\ UNCHANGED <<config, configLoaded, supabaseClient, user, session, isLoading, effects,
                   configStore, dataVars, dialogVars>>

SupabaseFormUnchecked(f) == TRUE

\* handleSaveSupabase goes on to updateConfig: neither input trims to "",
\* and new URL(supabaseUrl) does not throw.
SupabaseFormValid(f) ==
    /\ Trim(f.supabaseUrl) # <<>>
    /\ Trim(f.supabaseAnonKey) # <<>>
    /\ IsUrl(f.supabaseUrl)

SetConfig(next) ==
    /\ config' = next
    /\ effects' = effects \cup EffectsOf(config, next)

handleSaveSupabase ==
    /\ SettingsShown
    /\ SupabaseFormValid(form)
    /\ SetConfig(updateConfig(config, [supabaseUrl |-> Some(Trim(form.supabaseUrl)),
                                       supabaseAnonKey |-> Some(Trim(form.supabaseAnonKey))]))
    /\ UNCHANGED <<configLoaded, supabaseClient, user, session, isLoading, configStore, form,
                   dataVars, dialogVars>>

handleSaveGemini ==
    /\ SettingsShown
    /\ Trim(form.geminiApiKey) # <<>>
    /\ SetConfig(updateConfig(config, [geminiApiKey |-> Some(Trim(form.geminiApiKey))]))
    /\ UNCHANGED <<configLoaded, supabaseClient, user, session, isLoading, configStore, form,
                   dataVars, dialogVars>>

handleClearSupabase ==
    /\ SettingsShown
    /\ SetConfig(updateConfig(config, [supabaseUrl |-> Null, supabaseAnonKey |-> Null]))
    /\ form' = [form EXCEPT !.supabaseUrl = <<>>, !.supabaseAnonKey = <<>>]
    /\ UNCHANGED <<configLoaded, supabaseClient, user, session, isLoading, configStore,
                   dataVars, dialogVars>>

handleClearGemini ==
    /\ SettingsShown
    /\ SetConfig(updateConfig(config, [geminiApiKey |-> Null]))
    /\ form' = [form EXCEPT !.geminiApiKey = <<>>]
    /\ UNCHANGED <<configLoaded, supabaseClient, user, session, isLoading, configStore,
                   dataVars, dialogVars>>

ClearedRemoteOnly == [config EXCEPT !.supabaseUrl = Null, !.supabaseAnonKey = Null]

\* clearConfig: the object it hands to setConfig.
ClearedConfig == [supabaseUrl |-> Null, supabaseAnonKey |-> Null, geminiApiKey |-> Null]

\* handleClearAll -> clearConfig(): setConfig({ null, null, null }); configDB.clear()
handleClearAll ==
    /\ SettingsShown
    /\ config' = ClearedConfig
    /\ effects' = effects \cup EffectsOf(config, ClearedConfig) \cup {"clear"}
    /\ form' = FormOf(EmptyConfig)
    /\ UNCHANGED <<configLoaded, supabaseClient, user, session, isLoading, configStore,
                   dataVars, dialogVars>>

\* ----------------------------------------------------------- local store
\* getAll(): the records of a store in ascending key order.
RECURSIVE KeysAscending(_)
KeysAscending(S) ==
    IF S = {} THEN <<>>
    ELSE LET k == CHOOSE x \in S : \A y \in S : x <= y
         IN <<k>> \o KeysAscending(S \ {k})

getAll(store) ==
    LET keys == KeysAscending(DOMAIN store)
    IN [i \in 1..Len(keys) |-> store[keys[i]]]

\* put(): an upsert keyed by the record's id.
put(store, item) ==
    [k \in DOMAIN store \cup {item.id} |-> IF k = item.id THEN item ELSE store[k]]

\* remove(): delete by key; deleting an absent key succeeds.
remove(store, id) == [k \in DOMAIN store \ {id} |-> store[k]]

\* entries.sort((a, b) => a.position - b.position): Array.prototype.sort is
\* stable, so entries with equal positions keep their getAll() order.
RECURSIVE InsertByPosition(_, _)
InsertByPosition(x, sorted) ==
    IF sorted = <<>> THEN <<x>>
    ELSE IF x.position < Head(sorted).position THEN <<x>> \o sorted
    ELSE <<Head(sorted)>> \o InsertByPosition(x, Tail(sorted))

RECURSIVE SortByPosition(_)
SortByPosition(seq) ==
    IF seq = <<>> THEN <<>>
    ELSE InsertByPosition(seq[Len(seq)], SortByPosition(SubSeq(seq, 1, Len(seq) - 1)))

\* sort((a, b) => new Date(b.created_at) - new Date(a.created_at)): newest first.
RECURSIVE InsertNewestFirst(_, _)
InsertNewestFirst(x, sorted) ==
    IF sorted = <<>> THEN <<x>>
    ELSE IF x.created_at > Head(sorted).created_at THEN <<x>> \o sorted
    ELSE <<Head(sorted)>> \o InsertNewestFirst(x, Tail(sorted))

RECURSIVE SortNewestFirst(_)
SortNewestFirst(seq) ==
    IF seq = <<>> THEN <<>>
    ELSE InsertNewestFirst(seq[Len(seq)], SortNewestFirst(SubSeq(seq, 1, Len(seq) - 1)))

\* cheatsheetsDB.get(id): all.find(c => c.id === id) || null
cheatsheetsDB_get(id) ==
    IF id \in DOMAIN localCheatsheets THEN Some(localCheatsheets[id]) ELSE Null

\* entriesDB.getByCheatsheetId
getByCheatsheetId(cheatsheetId) ==
    LET Owned(e) == e.cheatsheet_id = cheatsheetId
    IN SelectSeq(getAll(localEntries), Owned)

\* ---------------------------------------------------------- remote store
\* select("*").eq(column, value): the rows of a table, in key order.
RemoteCheatsheetRows == getAll(remoteCheatsheets)
RemoteEntryRows == getAll(remoteEntries)

\* REFERENCES public.cheatsheets(id) ON DELETE CASCADE: deleting a cheatsheet
\* row deletes the entry rows that reference it.
CascadeDelete(entries, cheatsheetId) ==
    [k \in {e \in DOMAIN entries : entries[e].cheatsheet_id # cheatsheetId} |-> entries[k]]

\* DELETE FROM syntax_entries WHERE cheatsheet_id = id
DeleteEntriesWhere(entries, cheatsheetId) == CascadeDelete(entries, cheatsheetId)

\* ---------------------------------------------------------------- queries
IsTrashed(c) == c.deleted_at # Null
IsActive(c) == c.deleted_at = Null

\* useCheatsheets(view).queryFn
listCheatsheets(view) ==
    LET Mine(c) == c.user_id = The(user)
        rows == IF UseRemoteAsUser
                THEN SortNewestFirst(SelectSeq(RemoteCheatsheetRows, Mine))
                ELSE SortNewestFirst(getAll(localCheatsheets))
    IN IF view = "trash" THEN SelectSeq(rows, IsTrashed) ELSE SelectSeq(rows, IsActive)

\* useCheatsheet(id).queryFn: .single() is an error when no row matches; the
\* guest branch returns null.
getCheatsheet(id) ==
    IF UseRemote
    THEN IF id \in DOMAIN remoteCheatsheets
         THEN [data |-> Some(remoteCheatsheets[id]), error |-> FALSE]
         ELSE [data |-> Null, error |-> TRUE]
    ELSE [data |-> cheatsheetsDB_get(id), error |-> FALSE]

\* useSyntaxEntries(cheatsheetId).queryFn
listEntries(cheatsheetId) ==
    LET Owned(e) == e.cheatsheet_id = cheatsheetId
    IN IF UseRemote
       THEN SortByPosition(SelectSeq(RemoteEntryRows, Owned))
       ELSE SortByPosition(getByCheatsheetId(cheatsheetId))

\* ---------------------------------------------------------------- dialogs
\* The dialogs as their components mount: useState("") of the create
\* dialog; the add form and the edit form of the editor.
EmptyListForm == [title |-> <<>>, description |-> <<>>]

EmptyEditorForm ==
    [syntax |-> <<>>, category |-> <<>>, description |-> <<>>, example |-> <<>>,
     displayFormat |-> "card", language |-> "javascript", isGenerating |-> FALSE,
     editingEntry |-> Null, editSyntax |-> <<>>, editCategory |-> <<>>,
     editDisplayFormat |-> "card", editLanguage |-> "javascript",
     editDescription |-> <<>>, editExample |-> <<>>]

\* ------------------------------------------------------ mutations in flight
IdleOp == [pc |-> "idle"]
InFlight(op) == IF op.pc = "idle" THEN 0 ELSE 1
NumInFlight ==
    InFlight(purgeOp) + InFlight(toggleOp) + InFlight(createOp) + InFlight(reorderOp)
        + InFlight(updateOp)
\* A user action may start a mutation while fewer than `concurrency` run.
MayStart == NumInFlight < concurrency
\* The list view (CheatsheetList) is rendered when no cheatsheet is selected.
ListShown == selectedCheatsheet = Null

\* new Date() advances between two reads of the clock.
Tick ==
    /\ now < MaxTime
    /\ now' = now + 1
    /\ UNCHANGED <<appVars, dialogVars, localVars, remoteVars, idVars, selectedCheatsheet,
                   cheatsheetsQuery, entriesQuery, opVars, concurrency>>

\* ------------------------------------------------------- useCreateCheatsheet
\* handleCreate, its title accepted -> useCreateCheatsheet.mutationFn ->
\* setTitle(""), setDescription(""), onSelectCheatsheet(data.id)
CreateCheatsheet(input) ==
    /\ ListShown
    /\ MayStart
    /\ \E id \in FreshId(CheatsheetIds, usedCheatsheetIds) :
        /\ usedCheatsheetIds' = usedCheatsheetIds \cup {id}
        /\ IF UseRemoteAsUser
           THEN /\ remoteCheatsheets' = put(remoteCheatsheets,
                      [id |-> id, user_id |-> The(user), title |-> input.title,
                       description |-> input.description, created_at |-> now,
                       updated_at |-> now, deleted_at |-> Null])
                /\ UNCHANGED localCheatsheets
           ELSE /\ localCheatsheets' = put(localCheatsheets,
                      [id |-> id, title |-> input.title,
                       description |-> input.description, created_at |-> now,
                       updated_at |-> now, deleted_at |-> Null])
                /\ UNCHANGED remoteCheatsheets
        /\ selectedCheatsheet' = Some(id)
    /\ listForm' = EmptyListForm
    /\ UNCHANGED <<appVars, editorForm, toasts, updateOp, generateOp, now, localEntries,
                   remoteEntries, usedEntryIds, cheatsheetsQuery, entriesQuery, opVars,
                   concurrency>>

\* CheatsheetList: useCheatsheets("active") and useCheatsheets("trash") fetch on
\* mount and after invalidateQueries(["cheatsheets"]); until the fetches return,
\* the list shows the rows of the previous ones. The two fetches, started
\* together, return together.
RowIds(rows) == { rows[i].id : i \in 1..Len(rows) }

RefetchCheatsheets ==
    /\ ListShown
    /\ cheatsheetsQuery' = [active |-> RowIds(listCheatsheets("active")),
                            trash |-> RowIds(listCheatsheets("trash"))]
    /\ UNCHANGED <<appVars, dialogVars, now, localVars, remoteVars, idVars, selectedCheatsheet,
                   entriesQuery, opVars, concurrency>>

\* Index: onSelectCheatsheet on a card of the active list / onBack
SelectCheatsheet(id) ==
    /\ ListShown
    /\ id \in cheatsheetsQuery.active
    /\ selectedCheatsheet' = Some(id)
    /\ UNCHANGED <<appVars, dialogVars, now, localVars, remoteVars, idVars, cheatsheetsQuery, entriesQuery,
                   opVars, concurrency>>

\* onBack unmounts CheatsheetEditor: its forms are gone.
Back ==
    /\ ~ListShown
    /\ selectedCheatsheet' = Null
    /\ editorForm' = EmptyEditorForm
    /\ UNCHANGED <<appVars, listForm, toasts, updateOp, generateOp, now, localVars, remoteVars,
                   idVars, cheatsheetsQuery, entriesQuery, opVars, concurrency>>

\* --------------------------------- useSoftDeleteCheatsheet, useRestoreCheatsheet
\* The value the mutation writes to deleted_at.
DeletedAtAlwaysNow(kind) == Some(now)

DeletedAtOf(kind) == IF kind = "softDelete" THEN Some(now) ELSE Null

\* { ...cheatsheet, deleted_at: v }
WithDeletedAtOnly(cheatsheet, v) ==
    [cheatsheet EXCEPT !.deleted_at = v, !.description = ""]

WithDeletedAt(cheatsheet, v) == [cheatsheet EXCEPT !.deleted_at = v]

\* UPDATE cheatsheets SET deleted_at = v WHERE id = id; the trigger
\* update_cheatsheets_updated_at sets updated_at = now() on the updated row.
RemoteSetDeletedAt(rows, id, v) ==
    IF id \in DOMAIN rows
    THEN [rows EXCEPT ![id] = [@ EXCEPT !.deleted_at = v, !.updated_at = now]]
    ELSE rows

\* handleSoftDelete(id) on a card of the active list / handleRestore(id) on a
\* row of the trash list, as the query shows them: the cloud branch is one
\* request; the guest branch first awaits cheatsheetsDB.get(id).
ViewOf(kind) == IF kind = "softDelete" THEN "active" ELSE "trash"

BeginToggle(kind, id) ==
    /\ ListShown
    /\ MayStart
    /\ toggleOp.pc = "idle"
    /\ id \in cheatsheetsQuery[ViewOf(kind)]
    /\ toggleOp' = [pc |-> IF UseRemote THEN "update" ELSE "get", kind |-> kind,
                    id |-> id, cheatsheet |-> Null]
    /\ UNCHANGED <<appVars, dialogVars, now, localVars, remoteVars, idVars, selectedCheatsheet,
                   cheatsheetsQuery, entriesQuery, purgeOp, createOp, reorderOp, concurrency>>

ToggleRemoteUpdate ==
    /\ toggleOp.pc = "update"
    /\ remoteCheatsheets' =
          RemoteSetDeletedAt(remoteCheatsheets, toggleOp.id, DeletedAtOf(toggleOp.kind))
    /\ toggleOp' = [toggleOp EXCEPT !.pc = "done"]
    /\ UNCHANGED <<appVars, dialogVars, now, localVars, remoteEntries, idVars, selectedCheatsheet,
                   cheatsheetsQuery, entriesQuery, purgeOp, createOp, reorderOp, concurrency>>

\* const cheatsheet = await cheatsheetsDB.get(id)
ToggleGet ==
    /\ toggleOp.pc = "get"
    /\ toggleOp' = [toggleOp EXCEPT
                      !.cheatsheet = cheatsheetsDB_get(toggleOp.id),
                      !.pc = IF cheatsheetsDB_get(toggleOp.id) = Null THEN "done" ELSE "put"]
    /\ UNCHANGED <<appVars, dialogVars, now, localVars, remoteVars, idVars, selectedCheatsheet,
                   cheatsheetsQuery, entriesQuery, purgeOp, createOp, reorderOp, concurrency>>

\* await cheatsheetsDB.put({ ...cheatsheet, deleted_at })
TogglePut ==
    /\ toggleOp.pc = "put"
    /\ localCheatsheets' = put(localCheatsheets,
          WithDeletedAt(The(toggleOp.cheatsheet), DeletedAtOf(toggleOp.kind)))
    /\ toggleOp' = [toggleOp EXCEPT !.pc = "done"]
    /\ UNCHANGED <<appVars, dialogVars, now, localEntries, remoteVars, idVars, selectedCheatsheet,
                   cheatsheetsQuery, entriesQuery, purgeOp, createOp, reorderOp, concurrency>>

\* A request of the mutation fails: the cloud branch throws the error, the
\* guest branch's promise rejects.
ToggleFail ==
    /\ toggleOp.pc \in {"update", "get", "put"}
    /\ toggleOp' = [toggleOp EXCEPT !.pc = "failed"]
    /\ UNCHANGED <<appVars, dialogVars, now, localVars, remoteVars, idVars, selectedCheatsheet,
                   cheatsheetsQuery, entriesQuery, purgeOp, createOp, reorderOp, concurrency>>

\* mutateAsync settles: onSuccess invalidates ["cheatsheets"], the handler toasts.
ToggleSettle ==
    /\ toggleOp.pc \in {"done", "failed"}
    /\ toggleOp' = IdleOp
    /\ UNCHANGED <<appVars, dialogVars, now, localVars, remoteVars, idVars, selectedCheatsheet,
                   cheatsheetsQuery, entriesQuery, purgeOp, createOp, reorderOp, concurrency>>

\* ------------------------------------------------- usePermanentDeleteCheatsheet
\* The request the mutation issues first: both branches delete the entries
\* before the cheatsheet ("Delete entries first due to FK constraint").
PurgeStartCheatsheetFirst == IF UseRemote THEN "remoteDeleteCheatsheet" ELSE "deleteCheatsheet"

PurgeStart == IF UseRemote THEN "remoteDeleteEntries" ELSE "getAll"

\* A request the mutation has issued, with its result.
Issued(req, ok) == [req |-> req, ok |-> ok]

\* handlePermanentDelete(id) -> permanentDeleteMutation.mutateAsync(id), on a
\* row of the trash list, as the query shows it.
BeginPurge(id) ==
    /\ ListShown
    /\ MayStart
    /\ purgeOp.pc = "idle"
    /\ id \in cheatsheetsQuery.trash
    /\ purgeOp' = [pc |-> PurgeStart, id |-> id, toDelete |-> <<>>, deleted |-> 0,
                   issued |-> <<>>]
    /\ UNCHANGED <<appVars, dialogVars, now, localVars, remoteVars, idVars, selectedCheatsheet,
                   cheatsheetsQuery, entriesQuery, toggleOp, createOp, reorderOp, concurrency>>

\* entriesDB.deleteByCheatsheetId: const all = await this.getAll();
\* const toDelete = all.filter(e => e.cheatsheet_id === cheatsheetId)
toDeleteOf(cheatsheetId) ==
    LET owned == getByCheatsheetId(cheatsheetId)
    IN [i \in 1..Len(owned) |-> owned[i].id]

PurgeGetAll ==
    /\ purgeOp.pc = "getAll"
    /\ LET toDelete == toDeleteOf(purgeOp.id)
       IN purgeOp' = [purgeOp EXCEPT
                        !.toDelete = toDelete,
                        !.issued = Append(@, Issued("deleteEntries", TRUE)),
                        !.pc = IF toDelete = <<>> THEN "deleteCheatsheet" ELSE "deleteEntry"]
    /\ UNCHANGED <<appVars, dialogVars, now, localVars, remoteVars, idVars, selectedCheatsheet,
                   cheatsheetsQuery, entriesQuery, toggleOp, createOp, reorderOp, concurrency>>

\* for (const entry of toDelete) await this.delete(entry.id)
PurgeDeleteEntry ==
    /\ purgeOp.pc = "deleteEntry"
    /\ localEntries' = remove(localEntries, purgeOp.toDelete[purgeOp.deleted + 1])
    /\ purgeOp' = [purgeOp EXCEPT
                     !.deleted = @ + 1,
                     !.pc = IF purgeOp.deleted + 1 = Len(purgeOp.toDelete)
                            THEN "deleteCheatsheet" ELSE "deleteEntry"]
    /\ UNCHANGED <<appVars, dialogVars, now, localCheatsheets, remoteVars, idVars, selectedCheatsheet,
                   cheatsheetsQuery, entriesQuery, toggleOp, createOp, reorderOp, concurrency>>

\* await cheatsheetsDB.delete(id)
PurgeDeleteCheatsheet ==
    /\ purgeOp.pc = "deleteCheatsheet"
    /\ localCheatsheets' = remove(localCheatsheets, purgeOp.id)
    /\ purgeOp' = [purgeOp EXCEPT
                     !.issued = Append(@, Issued("deleteCheatsheet", TRUE)), !.pc = "done"]
    /\ UNCHANGED <<appVars, dialogVars, now, localEntries, remoteVars, idVars, selectedCheatsheet,
                   cheatsheetsQuery, entriesQuery, toggleOp, createOp, reorderOp, concurrency>>

\* await supabaseClient.from("syntax_entries").delete().eq("cheatsheet_id", id)
PurgeRemoteDeleteEntries ==
    /\ purgeOp.pc = "remoteDeleteEntries"
    /\ remoteEntries' = DeleteEntriesWhere(remoteEntries, purgeOp.id)
    /\ purgeOp' = [purgeOp EXCEPT
                     !.issued = Append(@, Issued("deleteEntries", TRUE)),
                     !.pc = "remoteDeleteCheatsheet"]
    /\ UNCHANGED <<appVars, dialogVars, now, localVars, remoteCheatsheets, idVars, selectedCheatsheet,
                   cheatsheetsQuery, entriesQuery, toggleOp, createOp, reorderOp, concurrency>>

\* The same request failing: its { error } is not read, the mutation goes on.
PurgeRemoteDeleteEntriesError ==
    /\ purgeOp.pc = "remoteDeleteEntries"
    /\ purgeOp' = [purgeOp EXCEPT
                     !.issued = Append(@, Issued("deleteEntries", FALSE)),
                     !.pc = "remoteDeleteCheatsheet"]
    /\ UNCHANGED <<appVars, dialogVars, now, localVars, remoteVars, idVars, selectedCheatsheet,
                   cheatsheetsQuery, entriesQuery, toggleOp, createOp, reorderOp, concurrency>>

\* const { error } = await supabaseClient.from("cheatsheets").delete().eq("id", id)
PurgeRemoteDeleteCheatsheet ==
    /\ purgeOp.pc = "remoteDeleteCheatsheet"
    /\ remoteCheatsheets' = remove(remoteCheatsheets, purgeOp.id)
    /\ remoteEntries' = CascadeDelete(remoteEntries, purgeOp.id)
    /\ purgeOp' = [purgeOp EXCEPT
                     !.issued = Append(@, Issued("deleteCheatsheet", TRUE)), !.pc = "done"]
    /\ UNCHANGED <<appVars, dialogVars, now, localVars, idVars, selectedCheatsheet,
                   cheatsheetsQuery, entriesQuery, toggleOp, createOp, reorderOp, concurrency>>

\* What a failed request leaves the mutation in: a rejected local request
\* rejects the mutation; if (error) throw error.
AfterFailedRequestIgnored(pc) == IF pc \in {"getAll", "deleteEntry"} THEN "failed" ELSE "done"

AfterFailedRequest(pc) == "failed"

\* The name the request at `pc` is issued under.
RequestAt(pc) ==
    IF pc \in {"deleteCheatsheet", "remoteDeleteCheatsheet"} THEN "deleteCheatsheet"
    ELSE "deleteEntries"

\* request.onerror -> reject (getAll, delete of an entry, delete of the
\* cheatsheet), or the cheatsheet DELETE returning { error }.
PurgeFail ==
    /\ purgeOp.pc \in {"getAll", "deleteEntry", "deleteCheatsheet", "remoteDeleteCheatsheet"}
    /\ purgeOp' = [purgeOp EXCEPT
                     !.issued = IF purgeOp.pc = "deleteEntry"
                                THEN [@ EXCEPT ![Len(@)] = Issued("deleteEntries", FALSE)]
                                ELSE Append(@, Issued(RequestAt(purgeOp.pc), FALSE)),
                     !.pc = AfterFailedRequest(purgeOp.pc)]
    /\ UNCHANGED <<appVars, dialogVars, now, localVars, remoteVars, idVars, selectedCheatsheet,
                   cheatsheetsQuery, entriesQuery, toggleOp, createOp, reorderOp, concurrency>>

\* onSuccess: invalidateQueries(["cheatsheets"]), invalidateQueries(["entries"]);
\* handlePermanentDelete's toast; or the rejection reaching the handler.
PurgeSettle ==
    /\ purgeOp.pc \in {"done", "failed"}
    /\ purgeOp' = IdleOp
    /\ UNCHANGED <<appVars, dialogVars, now, localVars, remoteVars, idVars, selectedCheatsheet,
                   cheatsheetsQuery, entriesQuery, toggleOp, createOp, reorderOp, concurrency>>

\* ------------------------------------------------------------ useSyntaxEntries
\* The editor's entry list: undefined until the query has loaded, then the
\* result of its last fetch.
EditorShown(c) == selectedCheatsheet = Some(c)

\* The query of the open editor fetches (on mount, or after an invalidation).
RefetchEntries(c) ==
    /\ EditorShown(c)
    /\ entriesQuery' = [entriesQuery EXCEPT ![c] = Some(listEntries(c))]
    /\ UNCHANGED <<appVars, dialogVars, now, localVars, remoteVars, idVars, selectedCheatsheet, cheatsheetsQuery,
                   opVars, concurrency>>

\* ----------------------------------------------------------------- useCreateEntry
Max(a, b) == IF a >= b THEN a ELSE b

\* entries.reduce((max, entry) => Math.max(max, entry.position || 0), -1)
RECURSIVE ReduceMaxPosition(_, _)
ReduceMaxPosition(entries, max) ==
    IF entries = <<>> THEN max
    ELSE ReduceMaxPosition(Tail(entries), Max(max, Head(entries).position))

maxPositionByLength(entries) ==
    IF entries = Null THEN NoPosition ELSE Len(The(entries)) - 1

\* const maxPosition = entries?.reduce(...) ?? -1
maxPosition(entries) ==
    IF entries = Null THEN NoPosition ELSE ReduceMaxPosition(The(entries), NoPosition)

\* handleSaveEntry -> createMutation.mutateAsync({...form, position: maxPosition + 1});
\* the guest branch builds newEntry (generateId(), timestamps) before its await.
BeginCreateEntryFrom(ids, c, input) ==
    /\ EditorShown(c)
    /\ MayStart
    /\ createOp.pc = "idle"
    /\ \E id \in FreshId(ids, usedEntryIds) :
        /\ usedEntryIds' = usedEntryIds \cup {id}
        /\ createOp' =
              [pc |-> IF UseRemote THEN "insert" ELSE "put",
               entry |-> [id |-> id, cheatsheet_id |-> c, syntax |-> input.syntax,
                          category |-> input.category, description |-> input.description,
                          example |-> input.example, notes |-> Null,
                          display_format |-> input.display_format,
                          language |-> input.language,
                          position |-> maxPosition(entriesQuery[c]) + 1,
                          created_at |-> now, updated_at |-> now]]
    /\ UNCHANGED <<appVars, dialogVars, now, localVars, remoteVars, usedCheatsheetIds,
                   selectedCheatsheet, cheatsheetsQuery, entriesQuery, purgeOp, toggleOp, reorderOp,
                   concurrency>>

BeginCreateEntry(c, input) == BeginCreateEntryFrom(EntryIds, c, input)

\* await entriesDB.put(newEntry)
CreateEntryPut ==
    /\ createOp.pc = "put"
    /\ localEntries' = put(localEntries, createOp.entry)
    /\ createOp' = [createOp EXCEPT !.pc = "done"]
    /\ UNCHANGED <<appVars, dialogVars, now, localCheatsheets, remoteVars, idVars, selectedCheatsheet,
                   cheatsheetsQuery, entriesQuery, purgeOp, toggleOp, reorderOp, concurrency>>

\* insert({...entry, notes: null}).select().single(): the row gets the
\* server's now(); the foreign key rejects a cheatsheet_id with no row.
CreateEntryInsert ==
    /\ createOp.pc = "insert"
    /\ IF createOp.entry.cheatsheet_id \in DOMAIN remoteCheatsheets
       THEN /\ remoteEntries' = put(remoteEntries,
                  [createOp.entry EXCEPT !.created_at = now, !.updated_at = now])
            /\ createOp' = [createOp EXCEPT !.pc = "done"]
       ELSE /\ UNCHANGED remoteEntries
            /\ createOp' = [createOp EXCEPT !.pc = "failed"]
    /\ UNCHANGED <<appVars, dialogVars, now, localVars, remoteCheatsheets, idVars, selectedCheatsheet,
                   cheatsheetsQuery, entriesQuery, purgeOp, toggleOp, reorderOp, concurrency>>

\* setSyntax(""), setCategory(""), ...: the add form after a save.
ResetAddForm(f) ==
    [f EXCEPT !.syntax = <<>>, !.category = <<>>, !.description = <<>>, !.example = <<>>,
              !.displayFormat = "card", !.language = "javascript"]

\* onSuccess: invalidateQueries(["entries", cheatsheet_id]); handleSaveEntry
\* goes on after its await and resets the add form. A rejected mutateAsync
\* throws out of handleSaveEntry: the form keeps its text.
CreateEntrySettle ==
    /\ createOp.pc \in {"done", "failed"}
    /\ createOp' = IdleOp
    /\ editorForm' = IF createOp.pc = "done" THEN ResetAddForm(editorForm) ELSE editorForm
    /\ UNCHANGED <<appVars, listForm, toasts, updateOp, generateOp, now, localVars, remoteVars,
                   idVars, selectedCheatsheet, cheatsheetsQuery, entriesQuery, purgeOp,
                   toggleOp, reorderOp, concurrency>>

\* ----------------------------------------------------------------- useDeleteEntry
\* onDelete(id) on an entry of the displayed list: one delete request.
DeleteEntry(c, id) ==
    /\ EditorShown(c)
    /\ MayStart
    /\ entriesQuery[c] # Null
    /\ \E i \in 1..Len(The(entriesQuery[c])) : The(entriesQuery[c])[i].id = id
    /\ IF UseRemote
       THEN /\ remoteEntries' = remove(remoteEntries, id)
            /\ UNCHANGED localEntries
       ELSE /\ localEntries' = remove(localEntries, id)
            /\ UNCHANGED remoteEntries
    /\ UNCHANGED <<appVars, dialogVars, now, localCheatsheets, remoteCheatsheets, idVars,
                   selectedCheatsheet, cheatsheetsQuery, entriesQuery, opVars, concurrency>>

\* --------------------------------------------------------------- useReorderEntries
\* entries.findIndex(entry => entry.id === id), as a 1-based index (0: absent).
findIndex(entries, id) ==
    IF \E i \in 1..Len(entries) : entries[i].id = id
    THEN CHOOSE i \in 1..Len(entries) :
            entries[i].id = id /\ \A j \in 1..(i - 1) : entries[j].id # id
    ELSE 0

arrayMoveSwapped(array, from, to) ==
    [k \in 1..Len(array) |-> IF k = from THEN array[to]
                              ELSE IF k = to THEN array[from] ELSE array[k]]

\* arrayMove(array, from, to) of @dnd-kit/sortable: the item at `from` is
\* taken out and put back at index `to`.
arrayMove(array, from, to) ==
    LET without == SubSeq(array, 1, from - 1) \o SubSeq(array, from + 1, Len(array))
    IN SubSeq(without, 1, to - 1) \o <<array[from]>> \o SubSeq(without, to, Len(without))

\* reorderedEntries.map((entry, index) => ({ id: entry.id, position: index }))
updatesOf(reorderedEntries) ==
    [i \in 1..Len(reorderedEntries) |-> [id |-> reorderedEntries[i].id, position |-> i - 1]]

\* Entries the editor renders in one sortable group: same category, same
\* display format.
SameGroup(a, b) == a.category = b.category /\ a.display_format = b.display_format

\* new Map(entries.map(e => [e.id, e.position]))
positionMapHas(updates, id) == \E i \in 1..Len(updates) : updates[i].id = id
positionMapGetIndex(updates, id) ==
    CHOOSE i \in 1..Len(updates) : updates[i].id = id

positionMapGet(updates, id) ==
    LET last == CHOOSE i \in 1..Len(updates) :
                   updates[i].id = id /\ \A j \in (i + 1)..Len(updates) : updates[j].id # id
    IN updates[last].position

\* handleDragEnd -> reorderMutation.mutate({ cheatsheet_id, entries: updates })
BeginReorder(c, activeId, overId) ==
    /\ EditorShown(c)
    /\ MayStart
    /\ reorderOp.pc = "idle"
    /\ entriesQuery[c] # Null
    /\ activeId # overId
    /\ LET entries == The(entriesQuery[c])
           oldIndex == findIndex(entries, activeId)
           newIndex == findIndex(entries, overId)
       IN /\ oldIndex # 0
          /\ newIndex # 0
          /\ SameGroup(entries[oldIndex], entries[newIndex])
          /\ reorderOp' = [pc |-> IF UseRemote THEN "update" ELSE "getAll",
                           cheatsheet_id |-> c,
                           updates |-> updatesOf(arrayMove(entries, oldIndex, newIndex)),
                           todo |-> IF UseRemote
                                    THEN updatesOf(arrayMove(entries, oldIndex, newIndex))
                                    ELSE <<>>]
    /\ UNCHANGED <<appVars, dialogVars, now, localVars, remoteVars, idVars, selectedCheatsheet,
                   cheatsheetsQuery, entriesQuery, purgeOp, toggleOp, createOp, concurrency>>

RemoteSetPositionOfAll(rows, id, p) ==
    [e \in DOMAIN rows |-> [rows[e] EXCEPT !.position = p, !.updated_at = now]]

\* UPDATE syntax_entries SET position = p WHERE id = id; the trigger
\* update_syntax_entries_updated_at sets updated_at = now().
RemoteSetPosition(rows, id, p) ==
    IF id \in DOMAIN rows
    THEN [rows EXCEPT ![id] = [@ EXCEPT !.position = p, !.updated_at = now]]
    ELSE rows

\* for (const update of entries) { await ...update({ position }).eq("id", update.id) }
ReorderRemoteUpdate ==
    /\ reorderOp.pc = "update"
    /\ remoteEntries' = RemoteSetPosition(remoteEntries, Head(reorderOp.todo).id,
                                            Head(reorderOp.todo).position)
    /\ reorderOp' = [reorderOp EXCEPT
                       !.todo = Tail(@),
                       !.pc = IF Tail(reorderOp.todo) = <<>> THEN "done" ELSE "update"]
    /\ UNCHANGED <<appVars, dialogVars, now, localVars, remoteCheatsheets, idVars, selectedCheatsheet,
                   cheatsheetsQuery, entriesQuery, purgeOp, toggleOp, createOp, concurrency>>

\* const all = await entriesDB.getAll(); the loop then visits the entries of
\* `all` the position map has.
listedOf(all, updates) ==
    LET Listed(e) == positionMapHas(updates, e.id)
    IN SelectSeq(all, Listed)

ReorderGetAll ==
    /\ reorderOp.pc = "getAll"
    /\ LET listed == listedOf(getAll(localEntries), reorderOp.updates)
       IN reorderOp' = [reorderOp EXCEPT
                          !.todo = listed,
                          !.pc = IF listed = <<>> THEN "done" ELSE "put"]
    /\ UNCHANGED <<appVars, dialogVars, now, localVars, remoteVars, idVars, selectedCheatsheet,
                   cheatsheetsQuery, entriesQuery, purgeOp, toggleOp, createOp, concurrency>>

\* await entriesDB.put({ ...entry, position: positionMap.get(entry.id)! })
ReorderPut ==
    /\ reorderOp.pc = "put"
    /\ localEntries' = put(localEntries,
          [Head(reorderOp.todo) EXCEPT
             !.position = positionMapGet(reorderOp.updates, Head(reorderOp.todo).id)])
    /\ reorderOp' = [reorderOp EXCEPT
                       !.todo = Tail(@),
                       !.pc = IF Tail(reorderOp.todo) = <<>> THEN "done" ELSE "put"]
    /\ UNCHANGED <<appVars, dialogVars, now, localCheatsheets, remoteVars, idVars, selectedCheatsheet,
                   cheatsheetsQuery, entriesQuery, purgeOp, toggleOp, createOp, concurrency>>

\* if (error) throw error / a rejected local request: the loop stops, the
\* updates not yet issued stay unissued and the mutation is rejected.
AfterFailedUpdateSkipped(op) ==
    [op EXCEPT !.todo = IF @ = <<>> THEN @ ELSE Tail(@),
               !.pc = IF op.todo = <<>> \/ Tail(op.todo) = <<>> THEN "failed" ELSE op.pc]

AfterFailedUpdate(op) == [op EXCEPT !.pc = "failed"]

ReorderFail ==
    /\ reorderOp.pc \in {"update", "getAll", "put"}
    /\ reorderOp' = AfterFailedUpdate(reorderOp)
    /\ UNCHANGED <<appVars, dialogVars, now, localVars, remoteVars, idVars, selectedCheatsheet,
                   cheatsheetsQuery, entriesQuery, purgeOp, toggleOp, createOp, concurrency>>

\* onSuccess: invalidateQueries(["entries", cheatsheet_id])
ReorderSettle ==
    /\ reorderOp.pc \in {"done", "failed"}
    /\ reorderOp' = IdleOp
    /\ UNCHANGED <<appVars, dialogVars, now, localVars, remoteVars, idVars, selectedCheatsheet,
                   cheatsheetsQuery, entriesQuery, purgeOp, toggleOp, createOp, concurrency>>

\* ------------------------------------------------ dialog handlers (validation)
\* The texts typed into the create dialog and into the add and edit forms.
TitleInputs == { <<" ">>, <<"JS", " ", "Basics">> }
SyntaxInputs == { <<" ">>, <<"Array.map()">> }
CategoryInputs == { <<" ">>, <<"Arrays">> }

\* The tuples of variables an action of a dialog leaves alone.
listDialogFrame == <<appVars, dataVars, editorForm, updateOp, generateOp>>
editorDialogFrame == <<appVars, dataVars, listForm, updateOp, generateOp>>

\* onChange of the create dialog's title.
TypeTitle(text) ==
    /\ ListShown
    /\ listForm.title # text
    /\ listForm' = [listForm EXCEPT !.title = text]
    /\ UNCHANGED <<listDialogFrame, toasts>>

TitleMissingUnchecked(f) == FALSE

\* if (!title.trim()) { toast(...); return; }
TitleMissing(f) == Trim(f.title) = <<>>

\* handleCreate: the validation, then the mutation with the title as typed.
handleCreate ==
    /\ ListShown
    /\ IF TitleMissing(listForm)
       THEN /\ toasts' = Append(toasts, "Title required")
            /\ UNCHANGED <<listDialogFrame, listForm>>
       ELSE CreateCheatsheet([title |-> listForm.title, description |-> listForm.description])

\* onChange of an input of the add form.
TypeEntry(c, field, text) ==
    /\ EditorShown(c)
    /\ editorForm[field] # text
    /\ editorForm' = [editorForm EXCEPT ![field] = text]
    /\ UNCHANGED <<editorDialogFrame, toasts>>

\* if (!syntax.trim() || !category.trim()) { toast(...); return; }
EntryMissing(syntax, category) == Trim(syntax) = <<>> \/ Trim(category) = <<>>

\* handleSaveEntry: the validation, then createMutation.mutateAsync with the
\* form's fields as typed.
handleSaveEntry(c) ==
    /\ EditorShown(c)
    /\ IF EntryMissing(editorForm.syntax, editorForm.category)
       THEN /\ toasts' = Append(toasts, "Missing information")
            /\ UNCHANGED <<editorDialogFrame, editorForm>>
       ELSE BeginCreateEntry(c, [syntax |-> editorForm.syntax,
                                 category |-> editorForm.category,
                                 description |-> editorForm.description,
                                 example |-> editorForm.example,
                                 display_format |-> editorForm.displayFormat,
                                 language |-> editorForm.language])

\* handleEdit(entry) on an entry of the displayed list: the edit form takes
\* the entry's fields.
OrDefault(v, default) == IF v = "" THEN default ELSE v

handleEdit(c, id) ==
    /\ EditorShown(c)
    /\ entriesQuery[c] # Null
    /\ findIndex(The(entriesQuery[c]), id) # 0
    /\ LET entry == The(entriesQuery[c])[findIndex(The(entriesQuery[c]), id)]
       IN editorForm' = [editorForm EXCEPT
                           !.editingEntry = Some(entry),
                           !.editSyntax = entry.syntax,
                           !.editCategory = entry.category,
                           !.editDisplayFormat = OrDefault(entry.display_format, "card"),
                           !.editLanguage = OrDefault(entry.language, "javascript"),
                           !.editDescription = entry.description,
                           !.editExample = entry.example]
    /\ UNCHANGED <<editorDialogFrame, toasts>>

\* onChange of an input of the edit form.
TypeEdit(c, field, text) ==
    /\ EditorShown(c)
    /\ editorForm.editingEntry # Null
    /\ editorForm[field] # text
    /\ editorForm' = [editorForm EXCEPT ![field] = text]
    /\ UNCHANGED <<editorDialogFrame, toasts>>

\* ----------------------------------------------------------------- useUpdateEntry
\* handleSaveEdit: the validation, then updateMutation.mutateAsync with the
\* edit form's fields; the cloud branch is one request, the guest branch
\* first awaits entriesDB.getAll().
handleSaveEdit(c) ==
    /\ EditorShown(c)
    /\ editorForm.editingEntry # Null
    /\ IF EntryMissing(editorForm.editSyntax, editorForm.editCategory)
       THEN /\ toasts' = Append(toasts, "Missing information")
            /\ UNCHANGED <<editorDialogFrame, editorForm>>
       ELSE /\ MayStart
            /\ updateOp.pc = "idle"
            /\ updateOp' = [pc |-> IF UseRemote THEN "update" ELSE "getAll",
                            entry |-> [id |-> The(editorForm.editingEntry).id,
                                       cheatsheet_id |-> c,
                                       syntax |-> editorForm.editSyntax,
                                       category |-> editorForm.editCategory,
                                       description |-> editorForm.editDescription,
                                       example |-> editorForm.editExample,
                                       display_format |-> editorForm.editDisplayFormat,
                                       language |-> editorForm.editLanguage],
                            existing |-> Null]
            /\ UNCHANGED <<appVars, dataVars, listForm, editorForm, toasts, generateOp>>

\* The columns the cloud branch's update({...}) names.
UpdatedColumns == {"syntax", "category", "description", "example", "display_format", "language"}

\* UPDATE syntax_entries SET syntax = ..., language = ... WHERE id = id; the
\* trigger update_syntax_entries_updated_at sets updated_at = now(). An
\* UPDATE that matches no row is not an error.
RemoteUpdateEntry(rows, entry) ==
    IF entry.id \in DOMAIN rows
    THEN [rows EXCEPT ![entry.id] =
            [k \in DOMAIN @ |-> IF k \in UpdatedColumns THEN entry[k]
                                ELSE IF k = "updated_at" THEN now ELSE @[k]]]
    ELSE rows

UpdateRemote ==
    /\ updateOp.pc = "update"
    /\ remoteEntries' = RemoteUpdateEntry(remoteEntries, updateOp.entry)
    /\ updateOp' = [updateOp EXCEPT !.pc = "done"]
    /\ UNCHANGED <<appVars, listForm, editorForm, toasts, generateOp, now, localVars,
                   remoteCheatsheets, idVars, selectedCheatsheet, cheatsheetsQuery,
                   entriesQuery, opVars, concurrency>>

\* const all = await entriesDB.getAll(); const existing = all.find(e => e.id === entry.id);
\* if (existing) { ... }: with no such entry the mutation is done.
UpdateGetAll ==
    /\ updateOp.pc = "getAll"
    /\ LET all == getAll(localEntries)
           i == findIndex(all, updateOp.entry.id)
       IN updateOp' = [updateOp EXCEPT
                         !.existing = IF i = 0 THEN Null ELSE Some(all[i]),
                         !.pc = IF i = 0 THEN "done" ELSE "put"]
    /\ UNCHANGED <<appVars, listForm, editorForm, toasts, generateOp, now, localVars,
                   remoteVars, idVars, selectedCheatsheet, cheatsheetsQuery, entriesQuery,
                   opVars, concurrency>>

MergedEntryMoved(existing, entry) ==
    [k \in DOMAIN existing \cup DOMAIN entry |->
        IF k = "updated_at" THEN now
        ELSE IF k = "position" THEN existing.position + 1
        ELSE IF k \in DOMAIN entry THEN entry[k] ELSE existing[k]]

\* { ...existing, ...entry, updated_at: new Date().toISOString() }
MergedEntry(existing, entry) ==
    [k \in DOMAIN existing \cup DOMAIN entry |->
        IF k = "updated_at" THEN now
        ELSE IF k \in DOMAIN entry THEN entry[k] ELSE existing[k]]

\* await entriesDB.put({ ...existing, ...entry, updated_at })
UpdatePut ==
    /\ updateOp.pc = "put"
    /\ localEntries' = put(localEntries, MergedEntry(The(updateOp.existing), updateOp.entry))
    /\ updateOp' = [updateOp EXCEPT !.pc = "done"]
    /\ UNCHANGED <<appVars, listForm, editorForm, toasts, generateOp, now, localCheatsheets,
                   remoteVars, idVars, selectedCheatsheet, cheatsheetsQuery, entriesQuery,
                   opVars, concurrency>>

\* if (error) throw error / a rejected local request.
UpdateFail ==
    /\ updateOp.pc \in {"update", "getAll", "put"}
    /\ updateOp' = [updateOp EXCEPT !.pc = "failed"]
    /\ UNCHANGED <<appVars, dataVars, listForm, editorForm, toasts, generateOp>>

\* onSuccess: invalidateQueries(["entries", cheatsheet_id]); handleSaveEdit goes
\* on after its await: setEditOpen(false), setEditingEntry(null). A rejected
\* mutateAsync throws out of handleSaveEdit: the dialog stays.
UpdateSettle ==
    /\ updateOp.pc \in {"done", "failed"}
    /\ updateOp' = IdleOp
    /\ editorForm' = IF updateOp.pc = "done"
                     THEN [editorForm EXCEPT !.editingEntry = Null] ELSE editorForm
    /\ UNCHANGED <<appVars, dataVars, listForm, toasts, generateOp>>

\* ------------------------------------------------------------------ useAIGenerate
\* The text of a response is a sequence of tokens: the two braces, a run of
\* other characters, and members of a JSON object.
DescriptionMember == "\"description\": \"maps\""
LanguageMember == "\"language\": \"python\""
ResponseTokens == {"{", "}", "text", DescriptionMember, LanguageMember}

RECURSIVE TextsUpTo(_)
TextsUpTo(n) ==
    IF n = 0 THEN { <<>> }
    ELSE TextsUpTo(n - 1) \cup
         { Append(t, x) : t \in { u \in TextsUpTo(n - 1) : Len(u) = n - 1 }, x \in ResponseTokens }

Responses == TextsUpTo(MaxResponseLen)

\* content.match(/\{[\s\S]*\}/): from the first "{" to the last "}" after it.
jsonMatch(content) ==
    LET opens == { i \in 1..Len(content) : content[i] = "{" }
        closes == { j \in 1..Len(content) : content[j] = "}" }
        first == CHOOSE i \in opens : \A k \in opens : i <= k
        last == CHOOSE j \in closes : \A k \in closes : j >= k
    IN IF opens # {} /\ closes # {} /\ first < last
       THEN Some(SubSeq(content, first, last)) ELSE Null

\* JSON.parse(jsonMatch[0]): an object when everything between the outer
\* braces is a member; a SyntaxError otherwise.
IsMember(token) == token \in {DescriptionMember, LanguageMember}
Members(block) == { block[i] : i \in 2..(Len(block) - 1) }
Parses(block) == \A token \in Members(block) : IsMember(token)

\* language || "javascript"
OrJavascript(language) == IF language = "" THEN "javascript" ELSE language

\* { description: parsed.description || "", example: parsed.example || "",
\*   language: parsed.language || language || "javascript" }
ParsedResult(block, language) ==
    [description |-> IF DescriptionMember \in Members(block) THEN <<"maps">> ELSE <<>>,
     example |-> <<>>,
     language |-> IF LanguageMember \in Members(block) THEN "python"
                  ELSE OrJavascript(language)]

FallbackNoDefault(content, language) ==
    [description |-> content, example |-> <<>>, language |-> language]

\* { description: content, example: "", language: language || "javascript" }
Fallback(content, language) ==
    [description |-> content, example |-> <<>>, language |-> OrJavascript(language)]

\* What generate returns for a 2xx response with this text: a result, or
\* null after the catch block's notification when JSON.parse throws.
generateReturns(content, language) ==
    IF jsonMatch(content) = Null THEN Some(Fallback(content, language))
    ELSE IF Parses(The(jsonMatch(content)))
         THEN Some(ParsedResult(The(jsonMatch(content)), language))
         ELSE Null

\* The request failed (fetch rejected, status 429, another non-2xx status):
\* the catch block notifies and generate returns null.
FailureKinds == {"network", "429", "500"}

AfterFailedFetchRetry(op, kind) ==
    [op EXCEPT !.status = kind, !.requests = IF @ < 2 THEN @ + 1 ELSE @]

AfterFailedFetch(op, kind) ==
    [op EXCEPT !.pc = "returned", !.status = kind, !.result = Null]

\* generate(params) once it has issued its fetch.
GenerateCall(target, language) ==
    [pc |-> "fetch", target |-> target, language |-> language, requests |-> 1,
     status |-> "pending", content |-> <<>>, result |-> Null]

\* The add form's "Generate with AI" button is rendered with a Gemini key and
\* disabled={isGenerating || !syntax.trim() || !category.trim()}.
GenerateEnabled ==
    /\ hasGemini
    /\ ~editorForm.isGenerating
    /\ ~EntryMissing(editorForm.syntax, editorForm.category)

\* handleAIGenerate (add form): the validation, setIsGenerating(true),
\* generate(); without a Gemini key generate notifies and returns null at once.
handleAIGenerate(c) ==
    /\ EditorShown(c)
    /\ ~editorForm.isGenerating
    /\ generateOp.pc = "idle"
    /\ IF EntryMissing(editorForm.syntax, editorForm.category)
       THEN /\ toasts' = Append(toasts, "Missing information")
            /\ UNCHANGED <<editorForm, generateOp>>
       ELSE IF ~hasGemini
       THEN /\ toasts' = Append(toasts, "AI not configured")
            /\ UNCHANGED <<editorForm, generateOp>>
       ELSE /\ generateOp' = GenerateCall("add", editorForm.language)
            /\ editorForm' = [editorForm EXCEPT !.isGenerating = TRUE]
            /\ UNCHANGED toasts
    /\ UNCHANGED <<appVars, dataVars, listForm, updateOp>>

\* handleRegenerateWithPrompt (edit form)
handleRegenerateWithPrompt(c) ==
    /\ EditorShown(c)
    /\ editorForm.editingEntry # Null
    /\ ~editorForm.isGenerating
    /\ generateOp.pc = "idle"
    /\ IF EntryMissing(editorForm.editSyntax, editorForm.editCategory)
       THEN /\ toasts' = Append(toasts, "Missing information")
            /\ UNCHANGED <<editorForm, generateOp>>
       ELSE IF ~hasGemini
       THEN /\ toasts' = Append(toasts, "AI not configured")
            /\ UNCHANGED <<editorForm, generateOp>>
       ELSE /\ generateOp' = GenerateCall("edit", editorForm.editLanguage)
            /\ editorForm' = [editorForm EXCEPT !.isGenerating = TRUE]
            /\ UNCHANGED toasts
    /\ UNCHANGED <<appVars, dataVars, listForm, updateOp>>

\* The fetch is answered with a 2xx status and this text.
GenerateResponse(content) ==
    /\ generateOp.pc = "fetch"
    /\ generateOp' = [generateOp EXCEPT
                        !.pc = "returned", !.status = "ok", !.content = content,
                        !.result = generateReturns(content, generateOp.language)]
    /\ toasts' = IF generateReturns(content, generateOp.language) = Null
                 THEN Append(toasts, "AI Error") ELSE toasts
    /\ UNCHANGED <<appVars, dataVars, listForm, editorForm, updateOp>>

\* The fetch rejects, or is answered with a non-2xx status.
GenerateFail(kind) ==
    /\ generateOp.pc = "fetch"
    /\ generateOp' = AfterFailedFetch(generateOp, kind)
    /\ toasts' = Append(toasts, "AI Error")
    /\ UNCHANGED <<appVars, dataVars, listForm, editorForm, updateOp>>

\* The handler after its await: if (result) { setDescription(...); setExample(...);
\* if (result.language) setLanguage(...) }; setIsGenerating(false).  The
\* "Content generated!" notification of a result is no error notification and
\* is not recorded in toasts.
ApplyResult(f, target, result) ==
    IF result = Null THEN f
    ELSE IF target = "add"
    THEN [f EXCEPT !.description = The(result).description,
                   !.example = The(result).example,
                   !.language = IF The(result).language = "" THEN @ ELSE The(result).language]
    ELSE [f EXCEPT !.editDescription = The(result).description,
                   !.editExample = The(result).example,
                   !.editLanguage = IF The(result).language = "" THEN @
                                    ELSE The(result).language]

GenerateApply ==
    /\ generateOp.pc = "returned"
    /\ editorForm' = [ApplyResult(editorForm, generateOp.target, generateOp.result)
                         EXCEPT !.isGenerating = FALSE]
    /\ generateOp' = IdleOp
    /\ UNCHANGED <<appVars, dataVars, listForm, toasts, updateOp>>

\* ------------------------------------------------------- query invalidation
\* The query-key prefixes the onSuccess of each mutation hook passes to
\* queryClient.invalidateQueries: ["cheatsheets"], ["entries"] or
\* ["entries", cheatsheet_id].
onSuccessInvalidates(mutation, cheatsheet_id) ==
    CASE mutation \in {"createCheatsheet", "softDelete", "restore"} -> { <<"cheatsheets">> }
      [] mutation = "purge" -> { <<"cheatsheets">>, <<"entries">> }
      [] mutation \in {"createEntry", "updateEntry", "deleteEntry", "reorderEntries"} ->
            { <<"entries", cheatsheet_id>> }

\* invalidateQueries matches a query when the given key is a prefix of the
\* query's key: here of [collection, argument, mode, ...].
MatchesQuery(prefix, collection, argument) ==
    /\ prefix[1] = collection
    /\ Len(prefix) > 1 => prefix[2] = argument

InvalidatedBy(mutation, cheatsheet_id, collection, argument) ==
    \E prefix \in onSuccessInvalidates(mutation, cheatsheet_id) :
        MatchesQuery(prefix, collection, argument)

\* ------------------------------------------------------------ specifications
EmptyStore == [k \in {} |-> k]
CloudConfig == [supabaseUrl |-> Some(RemoteUrlText), supabaseAnonKey |-> Some(AnonKeyText),
                geminiApiKey |-> Null]

\* No dialog has been typed in, no notification, nothing in flight.
InitDialogs ==
    /\ listForm = EmptyListForm
    /\ editorForm = EmptyEditorForm
    /\ toasts = <<>>
    /\ updateOp = IdleOp
    /\ generateOp = IdleOp

\* The application once startup has settled: in guest mode, or in cloud mode
\* with a signed-in user; both stores empty.
InitData ==
    /\ \/ /\ config = EmptyConfig
          /\ supabaseClient = Null
          /\ user = Null
          /\ session = Null
       \/ /\ config = CloudConfig
          /\ supabaseClient = Some("client")
          /\ user = Some("user-1")
          /\ session = Some("session-1")
    /\ configLoaded = TRUE
    /\ isLoading = FALSE
    /\ effects = {}
    /\ configStore = Some(config)
    /\ form = FormOf(config)
    /\ now = 0
    /\ localCheatsheets = EmptyStore
    /\ localEntries = EmptyStore
    /\ remoteCheatsheets = EmptyStore
    /\ remoteEntries = EmptyStore
    /\ usedCheatsheetIds = {}
    /\ usedEntryIds = {}
    /\ selectedCheatsheet = Null
    /\ cheatsheetsQuery = [active |-> {}, trash |-> {}]
    /\ entriesQuery = [c \in CheatsheetIds |-> Null]
    /\ purgeOp = IdleOp
    /\ toggleOp = IdleOp
    /\ createOp = IdleOp
    /\ reorderOp = IdleOp
    /\ InitDialogs

\* One mutation at a time: the user waits for each action to settle.
Init == InitData /\ concurrency = 1

\* Two mutations may overlap: a second action starts while one is in flight.
InitRace == InitData /\ concurrency = 2

\* The list view's session: cheatsheets are created, trashed, restored and
\* purged, and entries are added to the one that is open.
Next ==
    \/ \E input \in CheatsheetInputs : CreateCheatsheet(input)
    \/ RefetchCheatsheets
    \/ \E id \in CheatsheetIds : SelectCheatsheet(id)
    \/ Back
    \/ \E kind \in {"softDelete", "restore"}, id \in CheatsheetIds : BeginToggle(kind, id)
    \/ ToggleRemoteUpdate
    \/ ToggleGet
    \/ TogglePut
    \/ ToggleSettle
    \/ \E id \in CheatsheetIds : BeginPurge(id)
    \/ PurgeGetAll
    \/ PurgeDeleteEntry
    \/ PurgeDeleteCheatsheet
    \/ PurgeRemoteDeleteEntries
    \/ PurgeRemoteDeleteEntriesError
    \/ PurgeRemoteDeleteCheatsheet
    \/ PurgeFail
    \/ PurgeSettle
    \/ \E c \in CheatsheetIds : BeginCreateEntry(c, ArrayMapInput)
    \/ CreateEntryPut
    \/ CreateEntryInsert
    \/ CreateEntrySettle

Spec == Init /\ [][Next]_vars

\* A session of the list view with the clock running: cheatsheets are
\* created, trashed and restored at different times.
NextClock ==
    \/ Tick
    \/ \E input \in CheatsheetInputs : CreateCheatsheet(input)
    \/ RefetchCheatsheets
    \/ \E id \in CheatsheetIds : SelectCheatsheet(id)
    \/ Back
    \/ \E kind \in {"softDelete", "restore"}, id \in CheatsheetIds : BeginToggle(kind, id)
    \/ ToggleRemoteUpdate
    \/ ToggleGet
    \/ TogglePut
    \/ ToggleFail
    \/ ToggleSettle

SpecClock == Init /\ [][NextClock]_vars

SpecRace == InitRace /\ [][Next]_vars

\* The editor's session: the store holds cheatsheets, all active, each with
\* one entry; the editor is open on one of them, entries are added to it,
\* deleted and dragged.
StoredCheatsheet(id) ==
    [id |-> id, title |-> "JS Basics", description |-> "notes", created_at |-> 0,
     updated_at |-> 0, deleted_at |-> Null]

StoredEntryIds == { MaxEntries + c : c \in CheatsheetIds }
AllEntryIds == EntryIds \cup StoredEntryIds

StoredEntry(id) ==
    [id |-> id, cheatsheet_id |-> id - MaxEntries, syntax |-> "Array.push()",
     category |-> "Arrays", description |-> "", example |-> "", notes |-> Null,
     display_format |-> "card", language |-> "javascript", position |-> 0,
     created_at |-> 0, updated_at |-> 0]

InitEntries ==
    /\ \/ /\ config = EmptyConfig
          /\ supabaseClient = Null
          /\ user = Null
          /\ session = Null
          /\ localCheatsheets = [id \in CheatsheetIds |-> StoredCheatsheet(id)]
          /\ localEntries = [id \in StoredEntryIds |-> StoredEntry(id)]
          /\ remoteCheatsheets = EmptyStore
          /\ remoteEntries = EmptyStore
       \/ /\ config = CloudConfig
          /\ supabaseClient = Some("client")
          /\ user = Some("user-1")
          /\ session = Some("session-1")
          /\ localCheatsheets = EmptyStore
          /\ localEntries = EmptyStore
          /\ remoteCheatsheets =
                [id \in CheatsheetIds |-> StoredCheatsheet(id) @@ [user_id |-> "user-1"]]
          /\ remoteEntries = [id \in StoredEntryIds |-> StoredEntry(id)]
    /\ configLoaded = TRUE
    /\ isLoading = FALSE
    /\ effects = {}
    /\ configStore = Some(config)
    /\ form = FormOf(config)
    /\ now = 0
    /\ usedCheatsheetIds = CheatsheetIds
    /\ usedEntryIds = StoredEntryIds
    /\ selectedCheatsheet \in { Some(c) : c \in CheatsheetIds }
    /\ cheatsheetsQuery = [active |-> CheatsheetIds, trash |-> {}]
    /\ entriesQuery = [c \in CheatsheetIds |-> Null]
    /\ purgeOp = IdleOp
    /\ toggleOp = IdleOp
    /\ createOp = IdleOp
    /\ reorderOp = IdleOp
    /\ concurrency = 1
    /\ InitDialogs

\* The session adds at most MaxEditorEntries entries.
NextEntries ==
    \/ \E c \in CheatsheetIds : RefetchEntries(c)
    \/ \E c \in CheatsheetIds, input \in EntryInputs :
          /\ Cardinality(usedEntryIds \cap EntryIds) < MaxEditorEntries
          /\ BeginCreateEntry(c, input)
    \/ CreateEntryPut
    \/ CreateEntryInsert
    \/ CreateEntrySettle
    \/ \E c \in CheatsheetIds, id \in AllEntryIds : DeleteEntry(c, id)
    \/ \E c \in CheatsheetIds, activeId \in AllEntryIds, overId \in AllEntryIds :
          BeginReorder(c, activeId, overId)
    \/ ReorderRemoteUpdate
    \/ ReorderGetAll
    \/ ReorderPut
    \/ ReorderFail
    \/ ReorderSettle

SpecEntries == InitEntries /\ [][NextEntries]_vars

\* The settings session: the application is launched on an empty IndexedDB
\* database; the settings are typed, saved and cleared, and the page is
\* loaded again.
UrlInputs == { <<" ">>, <<" ">> \o RemoteUrlText, <<"not-a-url">> }
AnonKeyInputs == { <<" ">>, AnonKeyText \o <<" ">> }
GeminiKeyInputs == { GeminiKeyText }

InitConfig ==
    /\ config = EmptyConfig
    /\ configLoaded = FALSE
    /\ supabaseClient = Null
    /\ user = Null
    /\ session = Null
    /\ isLoading = TRUE
    /\ effects = {"load"}
    /\ configStore = Null
    /\ form = FormOf(EmptyConfig)
    /\ now = 0
    /\ localCheatsheets = EmptyStore
    /\ localEntries = EmptyStore
    /\ remoteCheatsheets = EmptyStore
    /\ remoteEntries = EmptyStore
    /\ usedCheatsheetIds = {}
    /\ usedEntryIds = {}
    /\ selectedCheatsheet = Null
    /\ cheatsheetsQuery = [active |-> {}, trash |-> {}]
    /\ entriesQuery = [c \in CheatsheetIds |-> Null]
    /\ purgeOp = IdleOp
    /\ toggleOp = IdleOp
    /\ createOp = IdleOp
    /\ reorderOp = IdleOp
    /\ concurrency = 1
    /\ InitDialogs

NextConfig ==
    \/ LoadConfig
    \/ LoadConfigFail
    \/ InitClient
    \/ \E stored \in {Null, Some("session-1")} : GetSession(stored)
    \/ SignIn
    \/ SignOut
    \/ PersistConfig
    \/ ClearStore
    \/ Reload
    \/ \E text \in UrlInputs : TypeText("supabaseUrl", text)
    \/ \E text \in AnonKeyInputs : TypeText("supabaseAnonKey", text)
    \/ \E text \in GeminiKeyInputs : TypeText("geminiApiKey", text)
    \/ handleSaveSupabase
    \/ handleSaveGemini
    \/ handleClearSupabase
    \/ handleClearGemini
    \/ handleClearAll

SpecConfig == InitConfig /\ [][NextConfig]_vars

\* The dialogs' session: a cheatsheet is created from the create dialog and
\* opens in the editor; entries are added from the add form and edited from
\* the edit form. The session adds at most MaxEditorEntries entries and
\* shows at most MaxToasts notifications.
NextDialogs ==
    \/ \E text \in TitleInputs : TypeTitle(text)
    \/ (TitleMissing(listForm) => Len(toasts) < MaxToasts) /\ handleCreate
    \/ \E c \in CheatsheetIds, text \in SyntaxInputs : TypeEntry(c, "syntax", text)
    \/ \E c \in CheatsheetIds, text \in CategoryInputs : TypeEntry(c, "category", text)
    \/ \E c \in CheatsheetIds :
          /\ IF EntryMissing(editorForm.syntax, editorForm.category)
             THEN Len(toasts) < MaxToasts
             ELSE Cardinality(usedEntryIds) < MaxEditorEntries
          /\ handleSaveEntry(c)
    \/ CreateEntryPut
    \/ CreateEntryInsert
    \/ CreateEntrySettle
    \/ \E c \in CheatsheetIds : RefetchEntries(c)
    \/ \E c \in CheatsheetIds, id \in EntryIds : handleEdit(c, id)
    \/ \E c \in CheatsheetIds, text \in SyntaxInputs : TypeEdit(c, "editSyntax", text)
    \/ \E c \in CheatsheetIds, text \in CategoryInputs : TypeEdit(c, "editCategory", text)
    \/ \E c \in CheatsheetIds :
          /\ EntryMissing(editorForm.editSyntax, editorForm.editCategory)
                => Len(toasts) < MaxToasts
          /\ handleSaveEdit(c)
    \/ UpdateRemote
    \/ UpdateGetAll
    \/ UpdatePut
    \/ UpdateFail
    \/ UpdateSettle

SpecDialogs == Init /\ [][NextDialogs]_vars

\* The edit session: the store holds cheatsheets, each with one entry whose
\* texts were typed into the add form; the editor is open on one of them, its
\* entries are edited, with the clock running.
StoredTextEntry(id) ==
    [StoredEntry(id) EXCEPT !.syntax = <<"Array.push()">>, !.category = <<"Arrays">>,
                            !.description = <<"appends">>, !.example = <<>>]

InitUpdate ==
    /\ \/ /\ config = EmptyConfig
          /\ supabaseClient = Null
          /\ user = Null
          /\ session = Null
          /\ localCheatsheets = [id \in CheatsheetIds |-> StoredCheatsheet(id)]
          /\ localEntries = [id \in StoredEntryIds |-> StoredTextEntry(id)]
          /\ remoteCheatsheets = EmptyStore
          /\ remoteEntries = EmptyStore
       \/ /\ config = CloudConfig
          /\ supabaseClient = Some("client")
          /\ user = Some("user-1")
          /\ session = Some("session-1")
          /\ localCheatsheets = EmptyStore
          /\ localEntries = EmptyStore
          /\ remoteCheatsheets =
                [id \in CheatsheetIds |-> StoredCheatsheet(id) @@ [user_id |-> "user-1"]]
          /\ remoteEntries = [id \in StoredEntryIds |-> StoredTextEntry(id)]
    /\ configLoaded = TRUE
    /\ isLoading = FALSE
    /\ effects = {}
    /\ configStore = Some(config)
    /\ form = FormOf(config)
    /\ now = 0
    /\ usedCheatsheetIds = CheatsheetIds
    /\ usedEntryIds = StoredEntryIds
    /\ selectedCheatsheet \in { Some(c) : c \in CheatsheetIds }
    /\ cheatsheetsQuery = [active |-> CheatsheetIds, trash |-> {}]
    /\ entriesQuery = [c \in CheatsheetIds |-> Null]
    /\ purgeOp = IdleOp
    /\ toggleOp = IdleOp
    /\ createOp = IdleOp
    /\ reorderOp = IdleOp
    /\ concurrency = 1
    /\ InitDialogs

NextUpdate ==
    \/ Tick
    \/ \E c \in CheatsheetIds : RefetchEntries(c)
    \/ \E c \in CheatsheetIds, id \in AllEntryIds : handleEdit(c, id)
    \/ \E c \in CheatsheetIds, text \in SyntaxInputs : TypeEdit(c, "editSyntax", text)
    \/ \E c \in CheatsheetIds, text \in CategoryInputs : TypeEdit(c, "editCategory", text)
    \/ \E c \in CheatsheetIds :
          /\ EntryMissing(editorForm.editSyntax, editorForm.editCategory)
                => Len(toasts) < MaxToasts
          /\ handleSaveEdit(c)
    \/ UpdateRemote
    \/ UpdateGetAll
    \/ UpdatePut
    \/ UpdateFail
    \/ UpdateSettle

SpecUpdate == InitUpdate /\ [][NextUpdate]_vars

\* The AI sessions: guest mode with a Gemini key saved; the store holds
\* cheatsheets, each with one entry, and the editor is open on one of them.
GeminiConfig == [EmptyConfig EXCEPT !.geminiApiKey = Some(GeminiKeyText)]

EditorWithGemini ==
    /\ config = GeminiConfig
    /\ supabaseClient = Null
    /\ user = Null
    /\ session = Null
    /\ localCheatsheets = [id \in CheatsheetIds |-> StoredCheatsheet(id)]
    /\ localEntries = [id \in StoredEntryIds |-> StoredTextEntry(id)]
    /\ remoteCheatsheets = EmptyStore
    /\ remoteEntries = EmptyStore
    /\ configLoaded = TRUE
    /\ isLoading = FALSE
    /\ effects = {}
    /\ configStore = Some(config)
    /\ form = FormOf(config)
    /\ now = 0
    /\ usedCheatsheetIds = CheatsheetIds
    /\ usedEntryIds = StoredEntryIds
    /\ selectedCheatsheet \in { Some(c) : c \in CheatsheetIds }
    /\ cheatsheetsQuery = [active |-> CheatsheetIds, trash |-> {}]
    /\ entriesQuery = [c \in CheatsheetIds |-> Null]
    /\ purgeOp = IdleOp
    /\ toggleOp = IdleOp
    /\ createOp = IdleOp
    /\ reorderOp = IdleOp
    /\ concurrency = 1

InitGenerate == EditorWithGemini /\ InitDialogs

\* The texts the session's requests are answered with: no braces, braces in
\* the wrong order, an object, an object inside other text, and a block that
\* is no JSON.
SessionResponses ==
    { <<"text">>, <<"}", "{">>, <<"{", DescriptionMember, "}">>,
      <<"text", "{", LanguageMember, "}">>, <<"{", "text", "}">> }

\* Entries are edited and their content is generated, from the add form and
\* from the edit form; the session shows at most MaxToasts notifications.
NextGenerate ==
    \/ \E c \in CheatsheetIds : RefetchEntries(c)
    \/ \E c \in CheatsheetIds, id \in AllEntryIds : handleEdit(c, id)
    \/ \E c \in CheatsheetIds, text \in SyntaxInputs : TypeEntry(c, "syntax", text)
    \/ \E c \in CheatsheetIds, text \in CategoryInputs : TypeEntry(c, "category", text)
    \/ \E c \in CheatsheetIds, text \in SyntaxInputs : TypeEdit(c, "editSyntax", text)
    \/ \E c \in CheatsheetIds : GenerateEnabled /\ handleAIGenerate(c)
    \/ \E c \in CheatsheetIds :
          /\ EntryMissing(editorForm.editSyntax, editorForm.editCategory) =>
                Len(toasts) < MaxToasts
          /\ handleRegenerateWithPrompt(c)
    \/ \E content \in SessionResponses :
          /\ generateOp.pc = "fetch"
          /\ generateReturns(content, generateOp.language) = Null => Len(toasts) < MaxToasts
          /\ GenerateResponse(content)
    \/ \E kind \in FailureKinds : Len(toasts) < MaxToasts /\ GenerateFail(kind)
    \/ GenerateApply

SpecGenerate == InitGenerate /\ [][NextGenerate]_vars

\* generate(params) as a function of its input language and of the text of
\* the response: a call is in flight from the add form, for each language,
\* and is answered with each text of at most MaxResponseLen tokens.
LanguageInputs == {"", "python"}

InitParse ==
    /\ EditorWithGemini
    /\ listForm = EmptyListForm
    /\ toasts = <<>>
    /\ updateOp = IdleOp
    /\ \E language \in LanguageInputs :
          /\ editorForm = [EmptyEditorForm EXCEPT !.syntax = <<"Array.map()">>,
                                                  !.category = <<"Arrays">>,
                                                  !.language = language,
                                                  !.isGenerating = TRUE]
          /\ generateOp = GenerateCall("add", language)

NextParse ==
    \/ \E content \in Responses : GenerateResponse(content)
    \/ GenerateApply

SpecParse == InitParse /\ [][NextParse]_vars

\* The drag session, in guest mode: the open cheatsheet holds MaxDragEntries
\* entries at positions 0, 1, ..., each in one of two categories; entries are
\* dragged inside their group and one of them is deleted, no request fails,
\* and the list is fetched when no reorder is running.
DragEntryIds == 1..MaxDragEntries
DragCategories == {"Arrays", "Queries"}

DragEntry(id, category) ==
    [id |-> id, cheatsheet_id |-> 1, syntax |-> "Array.push()",
     category |-> category, description |-> "", example |-> "", notes |-> Null,
     display_format |-> "card", language |-> "javascript", position |-> id - 1,
     created_at |-> 0, updated_at |-> 0]

DragEditor ==
    /\ config = EmptyConfig
    /\ supabaseClient = Null
    /\ user = Null
    /\ session = Null
    /\ localCheatsheets = [id \in CheatsheetIds |-> StoredCheatsheet(id)]
    /\ \E categoryOf \in [DragEntryIds -> DragCategories] :
          localEntries = [id \in DragEntryIds |-> DragEntry(id, categoryOf[id])]
    /\ remoteCheatsheets = EmptyStore
    /\ remoteEntries = EmptyStore
    /\ configLoaded = TRUE
    /\ isLoading = FALSE
    /\ effects = {}
    /\ configStore = Some(config)
    /\ form = FormOf(config)
    /\ now = 0
    /\ usedCheatsheetIds = CheatsheetIds
    /\ usedEntryIds = DragEntryIds
    /\ selectedCheatsheet = Some(1)
    /\ cheatsheetsQuery = [active |-> CheatsheetIds, trash |-> {}]
    /\ entriesQuery = [c \in CheatsheetIds |-> Null]
    /\ purgeOp = IdleOp
    /\ toggleOp = IdleOp
    /\ createOp = IdleOp
    /\ reorderOp = IdleOp
    /\ InitDialogs

InitDrag == DragEditor /\ concurrency = 1

\* The same session with a second mutation started while one is in flight.
InitDragRace == DragEditor /\ concurrency = 2

NextDrag ==
    \/ \E c \in CheatsheetIds : reorderOp.pc = "idle" /\ RefetchEntries(c)
    \/ \E c \in CheatsheetIds, id \in DragEntryIds :
          DOMAIN localEntries = DragEntryIds /\ DeleteEntry(c, id)
    \/ \E c \in CheatsheetIds, activeId \in DragEntryIds, overId \in DragEntryIds :
          BeginReorder(c, activeId, overId)
    \/ ReorderGetAll
    \/ ReorderPut
    \/ ReorderSettle

SpecDrag == InitDrag /\ [][NextDrag]_vars

SpecDragRace == InitDragRace /\ [][NextDrag]_vars

\* The editor's session on an empty cheatsheet, one action after the other:
\* entries are added (at most MaxSerialEntries), deleted and dragged; an
\* action starts when no mutation is in flight and the entry list has been
\* fetched since the last write; no request fails.
SerialEntryIds == 1..MaxSerialEntries

InitSerial ==
    /\ \/ /\ config = EmptyConfig
          /\ supabaseClient = Null
          /\ user = Null
          /\ session = Null
          /\ localCheatsheets = [id \in CheatsheetIds |-> StoredCheatsheet(id)]
          /\ remoteCheatsheets = EmptyStore
       \/ /\ config = CloudConfig
          /\ supabaseClient = Some("client")
          /\ user = Some("user-1")
          /\ session = Some("session-1")
          /\ localCheatsheets = EmptyStore
          /\ remoteCheatsheets =
                [id \in CheatsheetIds |-> StoredCheatsheet(id) @@ [user_id |-> "user-1"]]
    /\ localEntries = EmptyStore
    /\ remoteEntries = EmptyStore
    /\ configLoaded = TRUE
    /\ isLoading = FALSE
    /\ effects = {}
    /\ configStore = Some(config)
    /\ form = FormOf(config)
    /\ now = 0
    /\ usedCheatsheetIds = CheatsheetIds
    /\ usedEntryIds = {}
    /\ selectedCheatsheet = Some(1)
    /\ cheatsheetsQuery = [active |-> CheatsheetIds, trash |-> {}]
    /\ entriesQuery = [c \in CheatsheetIds |-> Null]
    /\ purgeOp = IdleOp
    /\ toggleOp = IdleOp
    /\ createOp = IdleOp
    /\ reorderOp = IdleOp
    /\ concurrency = 1
    /\ InitDialogs

Settled(c) ==
    /\ NumInFlight = 0
    /\ \/ entriesQuery[c] = Some(listEntries(c))
       \/ entriesQuery[c] = Null /\ usedEntryIds = {}

NextSerial ==
    \/ \E c \in CheatsheetIds : NumInFlight = 0 /\ RefetchEntries(c)
    \/ \E c \in CheatsheetIds, input \in EntryInputs :
          Settled(c) /\ BeginCreateEntryFrom(SerialEntryIds, c, input)
    \/ CreateEntryPut
    \/ CreateEntryInsert
    \/ CreateEntrySettle
    \/ \E c \in CheatsheetIds, id \in SerialEntryIds : Settled(c) /\ DeleteEntry(c, id)
    \/ \E c \in CheatsheetIds, activeId \in SerialEntryIds, overId \in SerialEntryIds :
          Settled(c) /\ BeginReorder(c, activeId, overId)
    \/ ReorderRemoteUpdate
    \/ ReorderGetAll
    \/ ReorderPut
    \/ ReorderSettle

SpecSerial == InitSerial /\ [][NextSerial]_vars

\* One startup: the application is launched on a database that holds no
\* AppConfig, remote credentials, remote credentials whose URL createClient
\* rejects, or a Gemini key; once the loading gate is open the settings are
\* typed, saved and cleared.  The page is not loaded again.  The pending
\* read of the config settles, React runs a scheduled client effect, and the
\* pending session check settles.
StartupStores ==
    { Null, Some(CloudConfig), Some(GeminiConfig),
      Some([CloudConfig EXCEPT !.supabaseUrl = Some(<<"not-a-url">>)]) }

InitStartup ==
    /\ config = EmptyConfig
    /\ configLoaded = FALSE
    /\ supabaseClient = Null
    /\ user = Null
    /\ session = Null
    /\ isLoading = TRUE
    /\ effects = {"load"}
    /\ configStore \in StartupStores
    /\ form = FormOf(EmptyConfig)
    /\ now = 0
    /\ localCheatsheets = EmptyStore
    /\ localEntries = EmptyStore
    /\ remoteCheatsheets = EmptyStore
    /\ remoteEntries = EmptyStore
    /\ usedCheatsheetIds = {}
    /\ usedEntryIds = {}
    /\ selectedCheatsheet = Null
    /\ cheatsheetsQuery = [active |-> {}, trash |-> {}]
    /\ entriesQuery = [c \in CheatsheetIds |-> Null]
    /\ purgeOp = IdleOp
    /\ toggleOp = IdleOp
    /\ createOp = IdleOp
    /\ reorderOp = IdleOp
    /\ concurrency = 1
    /\ InitDialogs

SessionCheck == \E stored \in {Null, Some("session-1")} : GetSession(stored)

NextStartup ==
    \/ LoadConfig
    \/ LoadConfigFail
    \/ InitClient
    \/ SessionCheck
    \/ SignIn
    \/ SignOut
    \/ PersistConfig
    \/ ClearStore
    \/ \E text \in UrlInputs : TypeText("supabaseUrl", text)
    \/ \E text \in AnonKeyInputs : TypeText("supabaseAnonKey", text)
    \/ \E text \in GeminiKeyInputs : TypeText("geminiApiKey", text)
    \/ handleSaveSupabase
    \/ handleSaveGemini
    \/ handleClearSupabase
    \/ handleClearGemini
    \/ handleClearAll

FairStartup ==
    /\ WF_vars(LoadConfig \/ LoadConfigFail)
    /\ WF_vars(InitClient)
    /\ WF_vars(SessionCheck)

SpecStartup == InitStartup /\ [][NextStartup]_vars /\ FairStartup

\* ================================================================ properties
\* The store the hooks read in the current mode.
ActiveCheatsheets == IF UseRemote THEN remoteCheatsheets ELSE localCheatsheets
ActiveEntries == IF UseRemote THEN remoteEntries ELSE localEntries

\* C1: once purgeCheatsheet(id) has completed without error, listEntries(id)
\* is empty and getCheatsheet(id) reports not-found (guest: null, cloud: an
\* error), whatever the id and however many entries it owned.
PurgeCascade ==
    purgeOp.pc = "done" =>
        /\ listEntries(purgeOp.id) = <<>>
        /\ IF UseRemote
           THEN getCheatsheet(purgeOp.id).error
           ELSE getCheatsheet(purgeOp.id) = [data |-> Null, error |-> FALSE]

\* A purge that completed after deleting every entry the session created.
PurgeCascadeWitness ==
    /\ purgeOp.pc = "done"
    /\ Len(purgeOp.toDelete) = MaxEntries
    /\ purgeOp.deleted = MaxEntries
    /\ purgeOp.id \notin DOMAIN localCheatsheets

\* C2: in every reachable state of the Local Store, also when a createEntry
\* for a cheatsheet overlaps the steps of its purge, every stored entry's
\* cheatsheet_id is the id of a stored cheatsheet.
NoOrphanEntries ==
    \A e \in DOMAIN localEntries : localEntries[e].cheatsheet_id \in DOMAIN localCheatsheets

\* C3: the purge issues the deletion of the entries before the deletion of
\* the cheatsheet; when the entry deletion succeeded and the cheatsheet
\* deletion failed, the mutation reports an error, the failed request has
\* removed no cheatsheet, and no stored entry belongs to the cheatsheet.
PurgeIssuesEntriesFirst ==
    purgeOp.pc # "idle" =>
        \A i \in 1..Len(purgeOp.issued) :
            purgeOp.issued[i].req = "deleteCheatsheet" =>
                i > 1 /\ purgeOp.issued[1].req = "deleteEntries"

EntriesDeletedCheatsheetFailed ==
    /\ purgeOp.pc # "idle"
    /\ purgeOp.issued = <<Issued("deleteEntries", TRUE), Issued("deleteCheatsheet", FALSE)>>

PurgeFailsSafe ==
    EntriesDeletedCheatsheetFailed =>
        /\ purgeOp.pc = "failed"
        /\ listEntries(purgeOp.id) = <<>>
        /\ \A e \in DOMAIN ActiveEntries : ActiveEntries[e].cheatsheet_id # purgeOp.id

FailedCheatsheetDeleteStep ==
    /\ purgeOp.pc \in {"deleteCheatsheet", "remoteDeleteCheatsheet"}
    /\ purgeOp'.pc = "failed"

PurgeEntriesFirst ==
    /\ []PurgeIssuesEntriesFirst
    /\ []PurgeFailsSafe
    /\ [][FailedCheatsheetDeleteStep =>
            /\ localCheatsheets' = localCheatsheets
            /\ remoteCheatsheets' = remoteCheatsheets]_vars

\* A guest purge that deleted the cheatsheet's entries and then failed to
\* delete the cheatsheet, which is still stored.
PurgeEntriesFirstWitness ==
    /\ EntriesDeletedCheatsheetFailed
    /\ purgeOp.deleted > 0
    /\ purgeOp.id \in DOMAIN localCheatsheets

\* C7: softDeleteCheatsheet and restoreCheatsheet change no field of a
\* cheatsheet other than updated_at and deleted_at, store and remove no
\* cheatsheet, and leave every entry as it was; so restoring a soft-deleted
\* cheatsheet gives back the record and the entries it had.
SameButTimestamps(a, b) ==
    [a EXCEPT !.updated_at = 0, !.deleted_at = Null] =
    [b EXCEPT !.updated_at = 0, !.deleted_at = Null]

KeepsAllButTimestamps(before, after) ==
    /\ DOMAIN after = DOMAIN before
    /\ \A id \in DOMAIN before : SameButTimestamps(before[id], after[id])

ToggleStep == toggleOp.pc # "idle" /\ toggleOp' # toggleOp

SoftDeleteRestoreKeepsRecord ==
    [][ToggleStep =>
          /\ KeepsAllButTimestamps(localCheatsheets, localCheatsheets')
          /\ KeepsAllButTimestamps(remoteCheatsheets, remoteCheatsheets')
          /\ localEntries' = localEntries
          /\ remoteEntries' = remoteEntries]_vars

\* A restore has completed on a cheatsheet that was in the trash and owns an
\* entry: it is stored with deleted_at null.
SoftDeleteRestoreWitness ==
    /\ toggleOp.pc = "done"
    /\ toggleOp.kind = "restore"
    /\ toggleOp.cheatsheet # Null
    /\ The(toggleOp.cheatsheet).deleted_at # Null
    /\ toggleOp.id \in DOMAIN localCheatsheets
    /\ localCheatsheets[toggleOp.id].deleted_at = Null
    /\ listEntries(toggleOp.id) # <<>>

\* C8: every stored cheatsheet is listed by exactly one of the active and
\* trash views, the trash view iff its deleted_at is non-null; when a
\* soft-delete has completed the cheatsheet is in the trash view only, when
\* a restore has completed it is in the active view only.
ExactlyOneView ==
    LET active == RowIds(listCheatsheets("active"))
        trash == RowIds(listCheatsheets("trash"))
    IN \A id \in DOMAIN ActiveCheatsheets :
          /\ id \in trash <=> ActiveCheatsheets[id].deleted_at # Null
          /\ id \in active <=> ActiveCheatsheets[id].deleted_at = Null
          /\ (id \in trash) # (id \in active)

InView(view, id) == id \in RowIds(listCheatsheets(view))

ToggleMovesView ==
    (toggleOp.pc = "done" /\ toggleOp.id \in DOMAIN ActiveCheatsheets) =>
        /\ ~InView(ViewOf(toggleOp.kind), toggleOp.id)
        /\ InView(IF toggleOp.kind = "softDelete" THEN "trash" ELSE "active", toggleOp.id)

WriteStore(pc) == IF pc = "update" THEN remoteCheatsheets ELSE localCheatsheets

RepeatedToggleStep ==
    /\ toggleOp.pc \in {"put", "update"}
    /\ toggleOp'.pc = "done"
    /\ toggleOp.id \in DOMAIN WriteStore(toggleOp.pc)
    /\ (toggleOp.kind = "softDelete") = (WriteStore(toggleOp.pc)[toggleOp.id].deleted_at # Null)

ToggleTwiceSameRecord ==
    [][RepeatedToggleStep =>
          /\ localCheatsheets' = localCheatsheets
          /\ remoteCheatsheets' = remoteCheatsheets]_vars

\* C4 as stated: the add-entry action stores the new entry with position
\* max(p1..pn) + 1 over the positions stored for its cheatsheet at that
\* moment, 0 when none is stored, whatever the editor's entry list holds.
StoredPositions(c) ==
    { listEntries(c)[i].position : i \in 1..Len(listEntries(c)) }

NextPosition(c) ==
    IF StoredPositions(c) = {} THEN 0
    ELSE (CHOOSE p \in StoredPositions(c) : \A q \in StoredPositions(c) : q <= p) + 1

AppendAfterStoredMax ==
    [][(createOp.pc \in {"put", "insert"} /\ createOp'.pc = "done") =>
          createOp.entry.position = NextPosition(createOp.entry.cheatsheet_id)]_vars

\* C5: when a reorder has completed successfully and its batch lists
\* exactly the stored entries of the cheatsheet, listEntries returns them in
\* the order of the batch, with positions 0, 1, ..., n-1.
BatchIds(updates) == { updates[i].id : i \in 1..Len(updates) }

ReorderDensity ==
    (/\ reorderOp.pc = "done"
     /\ BatchIds(reorderOp.updates) = RowIds(listEntries(reorderOp.cheatsheet_id))) =>
        LET got == listEntries(reorderOp.cheatsheet_id)
        IN /\ Len(got) = Len(reorderOp.updates)
           /\ \A i \in 1..Len(got) :
                 got[i].id = reorderOp.updates[i].id /\ got[i].position = i - 1

\* A completed reorder of the two entries of the open cheatsheet, read
\* back with the entry added in the session before the one stored earlier.
ReorderDensityWitness ==
    /\ reorderOp.pc = "done"
    /\ Len(reorderOp.updates) = 2
    /\ Len(listEntries(reorderOp.cheatsheet_id)) = 2
    /\ listEntries(reorderOp.cheatsheet_id)[1].id \in EntryIds
    /\ listEntries(reorderOp.cheatsheet_id)[2].id \in StoredEntryIds
    /\ listEntries(reorderOp.cheatsheet_id)[2].position = 1

\* C6: a reorder changes no cheatsheet, stores and removes no entry, leaves
\* every entry not listed in its batch as it was, changes of a listed entry
\* only its position (and the updated_at the remote trigger sets), and when
\* it has completed every listed entry that is stored has the batch's position.
SameButPosition(a, b) ==
    [a EXCEPT !.position = 0, !.updated_at = 0] = [b EXCEPT !.position = 0, !.updated_at = 0]

ReorderKeeps(before, after) ==
    /\ DOMAIN after = DOMAIN before
    /\ \A e \in DOMAIN before :
          IF e \in BatchIds(reorderOp.updates)
          THEN /\ SameButPosition(before[e], after[e])
               /\ \/ after[e].position = before[e].position
                  \/ after[e].position = positionMapGet(reorderOp.updates, e)
          ELSE after[e] = before[e]

ReorderStep == reorderOp.pc # "idle" /\ reorderOp' # reorderOp

ReorderApplied ==
    reorderOp.pc = "done" =>
        \A e \in BatchIds(reorderOp.updates) \cap DOMAIN ActiveEntries :
            ActiveEntries[e].position = positionMapGet(reorderOp.updates, e)

ReorderListedOnly ==
    /\ []ReorderApplied
    /\ [][ReorderStep =>
            /\ ReorderKeeps(localEntries, localEntries')
            /\ ReorderKeeps(remoteEntries, remoteEntries')
            /\ localCheatsheets' = localCheatsheets
            /\ remoteCheatsheets' = remoteCheatsheets]_vars

\* A completed reorder that moved the stored entry of the open cheatsheet
\* behind the one added in the session, while the entry of another
\* cheatsheet, not in the batch, is stored.
ReorderListedOnlyWitness ==
    /\ reorderOp.pc = "done"
    /\ Len(reorderOp.updates) = 2
    /\ BatchIds(reorderOp.updates) \subseteq DOMAIN ActiveEntries
    /\ \E e \in BatchIds(reorderOp.updates) \cap StoredEntryIds : ActiveEntries[e].position = 1
    /\ \E e \in DOMAIN ActiveEntries :
          /\ e \notin BatchIds(reorderOp.updates)
          /\ ActiveEntries[e].cheatsheet_id # reorderOp.cheatsheet_id

\* C10: at every evaluation mode is "cloud" iff the remote URL and the
\* remote key of the current config are both non-null, and a change of the
\* config that leaves either of them null is followed by mode "guest".
ModeIffBothSet ==
    (mode = "cloud") <=> (config.supabaseUrl # Null /\ config.supabaseAnonKey # Null)

ModeDerivation ==
    /\ []ModeIffBothSet
    /\ [][(config' # config /\ (config'.supabaseUrl = Null \/ config'.supabaseAnonKey = Null))
             => ModeOf(config') = "guest"]_vars

\* The remote settings have just been cleared in cloud mode: the config has
\* no URL, the client of the cleared settings is still set, the stored
\* config still has the URL, and mode is "guest".
ModeDerivationWitness ==
    /\ mode = "guest"
    /\ config.supabaseUrl = Null
    /\ supabaseClient # Null
    /\ configStore # Null
    /\ The(configStore).supabaseUrl # Null

\* C11: whenever the components that issue the data operations are shown,
\* every operation (list/get/create/soft-delete/restore/purge of cheatsheets,
\* list/create/update/delete/reorder of entries) takes the Remote Store
\* branch exactly when mode is cloud and a user is set, and the Local Store
\* branch otherwise.
CloudUser == mode = "cloud" /\ user # Null

DispatchRule ==
    ContentShown => \A op \in DataOperations : RoutesRemote(op) <=> CloudUser

\* C12: creating a cheatsheet with an empty or whitespace-only title, and
\* creating or updating an entry with an empty or whitespace-only syntax or
\* category, is rejected with a validation notification before any store
\* call is made: no record with such a field is stored or on its way to a
\* store, and the step that notifies starts no mutation and changes no store.
NonBlankEntry(e) == Trim(e.syntax) # <<>> /\ Trim(e.category) # <<>>

StoredFieldsValid ==
    /\ \A id \in DOMAIN localCheatsheets : Trim(localCheatsheets[id].title) # <<>>
    /\ \A id \in DOMAIN remoteCheatsheets : Trim(remoteCheatsheets[id].title) # <<>>
    /\ \A id \in DOMAIN localEntries : NonBlankEntry(localEntries[id])
    /\ \A id \in DOMAIN remoteEntries : NonBlankEntry(remoteEntries[id])
    /\ createOp.pc # "idle" => NonBlankEntry(createOp.entry)
    /\ updateOp.pc # "idle" => NonBlankEntry(updateOp.entry)

ValidationStep ==
    /\ Len(toasts') = Len(toasts) + 1
    /\ toasts'[Len(toasts')] \in {"Title required", "Missing information"}

ValidationRejects ==
    /\ []StoredFieldsValid
    /\ [][ValidationStep =>
            /\ \/ ListShown /\ TitleMissing(listForm)
               \/ ~ListShown /\ EntryMissing(editorForm.syntax, editorForm.category)
               \/ /\ ~ListShown
                  /\ editorForm.editingEntry # Null
                  /\ EntryMissing(editorForm.editSyntax, editorForm.editCategory)
            /\ UNCHANGED <<localVars, remoteVars, idVars, opVars, updateOp, selectedCheatsheet,
                           listForm, editorForm>>]_vars

\* The edit form of a stored entry was saved with a whitespace-only syntax:
\* the notification is shown, no update is in flight, and the entry is
\* stored as it was created.
ValidationRejectsWitness ==
    /\ toasts = <<"Missing information">>
    /\ editorForm.editingEntry # Null
    /\ Trim(editorForm.editSyntax) = <<>>
    /\ updateOp.pc = "idle"
    /\ \E id \in DOMAIN ActiveEntries :
          /\ id = The(editorForm.editingEntry).id
          /\ ActiveEntries[id].syntax = The(editorForm.editingEntry).syntax
          /\ ActiveEntries[id].updated_at = ActiveEntries[id].created_at

\* C13: updateEntry(id, fields) on a stored entry changes only the fields
\* supplied and updated_at: the entry's id, position, notes and created_at
\* (and its cheatsheet) keep their values, the supplied fields take the
\* supplied values, updated_at is the time of the write, and no other entry
\* and no cheatsheet is changed.
UpdateWrites(old, new, entry) ==
    /\ DOMAIN new = DOMAIN old
    /\ \A e \in DOMAIN old :
          IF e = entry.id
          THEN /\ new[e].id = old[e].id
               /\ new[e].cheatsheet_id = old[e].cheatsheet_id
               /\ new[e].position = old[e].position
               /\ new[e].notes = old[e].notes
               /\ new[e].created_at = old[e].created_at
               /\ \A k \in UpdatedColumns : new[e][k] = entry[k]
               /\ new[e].updated_at = now
               /\ new[e].updated_at >= old[e].updated_at
          ELSE new[e] = old[e]

UpdateStep == updateOp.pc \in {"update", "put"} /\ updateOp'.pc = "done"

UpdateFrame ==
    [][UpdateStep =>
          /\ updateOp.entry.id \in DOMAIN ActiveEntries
          /\ UpdateWrites(localEntries, localEntries', updateOp.entry)
          /\ UpdateWrites(remoteEntries, remoteEntries', updateOp.entry)
          /\ localCheatsheets' = localCheatsheets
          /\ remoteCheatsheets' = remoteCheatsheets]_vars

\* An update that completed at a later time than the entry was created: the
\* entry has the new syntax and the new updated_at, its created_at and the
\* entry of another cheatsheet are as they were stored.
UpdateFrameWitness ==
    /\ updateOp.pc = "done"
    /\ updateOp.entry.id \in DOMAIN ActiveEntries
    /\ ActiveEntries[updateOp.entry.id].syntax = <<"Array.map()">>
    /\ ActiveEntries[updateOp.entry.id].updated_at > ActiveEntries[updateOp.entry.id].created_at
    /\ \E e \in DOMAIN ActiveEntries :
          e # updateOp.entry.id /\ ActiveEntries[e] = StoredTextEntry(e)

\* C14: a soft-delete or restore whose id is absent from the active store
\* when its request is answered does not complete as a success: the mutation
\* fails (not-found), and the stores are unchanged.
ToggleAnswered == toggleOp.pc \in {"get", "update"} /\ toggleOp'.pc # toggleOp.pc

NotFoundReported ==
    [][(ToggleAnswered /\ toggleOp.id \notin DOMAIN ActiveCheatsheets) =>
          /\ toggleOp'.pc = "failed"
          /\ UNCHANGED <<localVars, remoteVars>>]_vars

\* C15: a configuration mutation is written to the Local Store before the
\* application acts on it: in every state the mode in use is the mode of
\* the stored AppConfig and a constructed client is that of the stored
\* credentials, and once no write is pending the stored AppConfig equals
\* the one in memory.
ActsOnPersisted ==
    configLoaded =>
        /\ mode = ModeOf(configDB_get)
        /\ (supabaseClient # Null /\ mode = "cloud") =>
               /\ configDB_get.supabaseUrl = config.supabaseUrl
               /\ configDB_get.supabaseAnonKey = config.supabaseAnonKey

PersistedWhenQuiet ==
    (configLoaded /\ effects \cap {"persist", "clear"} = {}) => configDB_get = config

WriteThrough == ActsOnPersisted /\ PersistedWhenQuiet

\* C16: clearConfig leaves the in-memory AppConfig with its three fields
\* null, mode guest and AI disabled; and whichever of its config delete and
\* the persist effect's config write completes last, once both have
\* completed a load of AppConfig from the Local Store yields the empty
\* AppConfig.
ClearStep == "clear" \notin effects /\ "clear" \in effects'

ClearedAndQuiet ==
    configLoaded /\ config = EmptyConfig /\ effects \cap {"persist", "clear"} = {}

ClearResets ==
    /\ [](ClearedAndQuiet => (configDB_get = EmptyConfig /\ mode = "guest" /\ ~hasGemini))
    /\ [][ClearStep =>
            /\ config' = EmptyConfig
            /\ ModeOf(config') = "guest"
            /\ ~Truthy(config'.geminiApiKey)]_vars

\* Both requests of a clearConfig have completed, the delete last: nothing
\* is stored under "app-config", and the config in memory is empty.
ClearResetsWitness ==
    /\ ClearedAndQuiet
    /\ configStore = Null
    /\ ~isLoading

\* C17: the list or the editor is rendered only once the initial read of
\* AppConfig has completed, and only if mode is guest or a user is set; in
\* cloud mode without a user no content is rendered, and once loading is
\* over what is rendered is the sign-in form.
RenderGate ==
    /\ IndexView \in {"list", "editor"} =>
          /\ configLoaded
          /\ "load" \notin effects
          /\ mode = "guest" \/ user # Null
    /\ (mode = "cloud" /\ user = Null) => IndexView \in {"blank", "loading", "auth"}
    /\ (configLoaded /\ ~isLoading /\ mode = "cloud" /\ user = Null) => IndexView = "auth"

\* Cloud mode with the client constructed, the session check answered with
\* no session: the sign-in form is what is rendered.
RenderGateWitness ==
    /\ IndexView = "auth"
    /\ supabaseClient # Null
    /\ "getSession" \notin effects
    /\ configStore = Some(config)

\* C18: when the text of the response contains no brace-delimited block (no
\* "{" with a "}" after it), generate returns {description: the full text,
\* example: "", language: the input language, or "javascript" when the input
\* language is empty}.
HasBraceBlock(content) ==
    \E i \in 1..Len(content), j \in 1..Len(content) :
        i < j /\ content[i] = "{" /\ content[j] = "}"

FallbackParsing ==
    (generateOp.pc = "returned" /\ generateOp.status = "ok"
        /\ ~HasBraceBlock(generateOp.content)) =>
    generateOp.result =
        Some([description |-> generateOp.content, example |-> <<>>,
              language |-> IF generateOp.language = "" THEN "javascript"
                           ELSE generateOp.language])

\* A call with an empty input language was answered with a text that has
\* both braces, but no "{" before a "}": the whole text is the description
\* and the language is "javascript".
FallbackParsingWitness ==
    /\ generateOp.pc = "returned"
    /\ generateOp.language = ""
    /\ generateOp.content = <<"}", "text", "{">>
    /\ generateOp.result # Null
    /\ The(generateOp.result).description = <<"}", "text", "{">>
    /\ The(generateOp.result).language = "javascript"

\* C19: a generate call issues one HTTP request and never another; when the
\* request fails (network error, 429, another non-2xx status) the call
\* returns null with one error notification, and the description, example
\* and language of the add and edit forms are left as they were, also once
\* the handler has gone on after the call.
FormContent ==
    <<editorForm.description, editorForm.example, editorForm.language,
      editorForm.editDescription, editorForm.editExample, editorForm.editLanguage>>

RequestFailed ==
    generateOp.pc = "fetch" /\ generateOp' # generateOp /\ generateOp'.status \in FailureKinds

ReturnedNull ==
    generateOp.pc = "returned" /\ generateOp.result = Null /\ generateOp' # generateOp

FailsClosed ==
    /\ [](generateOp.pc # "idle" => generateOp.requests = 1)
    /\ [][RequestFailed =>
            /\ generateOp'.pc = "returned"
            /\ generateOp'.result = Null
            /\ toasts' = Append(toasts, "AI Error")
            /\ FormContent' = FormContent]_vars
    /\ [][ReturnedNull =>
            /\ generateOp' = IdleOp
            /\ toasts' = toasts
            /\ FormContent' = FormContent]_vars

\* A regeneration from the edit form was answered with status 429: the call
\* has returned null after its one request, there is one notification and
\* the edit form has the entry's description.
FailsClosedWitness ==
    /\ generateOp.pc = "returned"
    /\ generateOp.target = "edit"
    /\ generateOp.status = "429"
    /\ generateOp.requests = 1
    /\ generateOp.result = Null
    /\ toasts = <<"AI Error">>
    /\ editorForm.editingEntry # Null
    /\ editorForm.editDescription = <<"appends">>

\* C20: once a remote credential has been cleared in cloud mode and the
\* client effect has torn the client down, the client, the user identity and
\* the session are null for as long as mode stays guest: no session check of
\* the torn-down client that completes later sets them again.
TornDown == configLoaded /\ mode = "guest" /\ "init" \notin effects

TeardownIsFinal ==
    TornDown => (supabaseClient = Null /\ user = Null /\ session = Null)

\* C21: in cloud mode reorderEntries applies its batch as single-row position
\* updates, one after the other in batch order; at the first failing update
\* it stops: the update changes nothing, none of the remaining updates is
\* issued, the mutation is rejected once, the updates before the failing one
\* stay applied and the other entries keep their positions.  (An update
\* whose row has been deleted since the list was fetched matches no row.)
CloudReorderStep == reorderOp.pc = "update" /\ reorderOp' # reorderOp

IssuedUpdates == SubSeq(reorderOp.updates, 1, Len(reorderOp.updates) - Len(reorderOp.todo))

SequentialUpdates ==
    /\ [](reorderOp.pc \in {"update", "failed"} /\ UseRemote =>
            /\ reorderOp.updates = IssuedUpdates \o reorderOp.todo
            /\ \A i \in 1..Len(IssuedUpdates) :
                  IssuedUpdates[i].id \in DOMAIN remoteEntries =>
                  remoteEntries[IssuedUpdates[i].id].position = IssuedUpdates[i].position)
    /\ [][CloudReorderStep =>
            \/ /\ reorderOp'.pc = "failed"
               /\ reorderOp'.todo = reorderOp.todo
               /\ remoteEntries' = remoteEntries
            \/ /\ reorderOp'.pc \in {"update", "done"}
               /\ reorderOp'.todo = Tail(reorderOp.todo)
               /\ DOMAIN remoteEntries' = DOMAIN remoteEntries
               /\ \A id \in DOMAIN remoteEntries :
                     IF id = Head(reorderOp.todo).id
                     THEN remoteEntries'[id].position = Head(reorderOp.todo).position
                     ELSE remoteEntries'[id] = remoteEntries[id]]_vars
    /\ [][reorderOp.pc = "failed" =>
            /\ remoteEntries' = remoteEntries
            /\ reorderOp' \in {reorderOp, IdleOp}]_vars

\* The second of two updates has failed: the first entry of the batch has its
\* new position, the second one still the position it had.
SequentialUpdatesWitness ==
    /\ UseRemote
    /\ reorderOp.pc = "failed"
    /\ Len(reorderOp.updates) = 2
    /\ Len(reorderOp.todo) = 1
    /\ remoteEntries[reorderOp.updates[1].id].position = reorderOp.updates[1].position
    /\ remoteEntries[reorderOp.updates[2].id].position # reorderOp.updates[2].position

\* C22: every mutation of a record of the Local Store refreshes its
\* updated_at: a stored cheatsheet or entry that a step changes has, after
\* the step, the time of that step as its updated_at.
LocalUpdatedAtRefreshed ==
    [][/\ \A id \in DOMAIN localCheatsheets \cap DOMAIN localCheatsheets' :
            localCheatsheets'[id] # localCheatsheets[id] =>
            localCheatsheets'[id].updated_at = now
       /\ \A id \in DOMAIN localEntries \cap DOMAIN localEntries' :
            localEntries'[id] # localEntries[id] =>
            localEntries'[id].updated_at = now]_vars

\* C23: after a mutation the next read of every query whose result the
\* mutation changed is served by a fresh fetch: whenever a step of a mutation
\* changes the result of the active list, of the trash list, of the
\* single-cheatsheet query of a cheatsheet the editor has been opened on, or
\* of a cheatsheet's entry list, the mutation's onSuccess invalidates that
\* query.  (handleCreate opens the editor on every cheatsheet it creates.)
MutationOfStep ==
    IF toggleOp.pc # "idle" THEN toggleOp.kind
    ELSE IF purgeOp.pc # "idle" THEN "purge"
    ELSE IF createOp.pc # "idle" THEN "createEntry"
    ELSE "createCheatsheet"

CheatsheetOfStep ==
    IF createOp.pc # "idle" THEN createOp.entry.cheatsheet_id ELSE 0

ChangedQueriesInvalidated ==
    [][/\ \A view \in {"active", "trash"} :
            listCheatsheets(view)' # listCheatsheets(view) =>
            InvalidatedBy(MutationOfStep, CheatsheetOfStep, "cheatsheets", view)
       /\ \A id \in usedCheatsheetIds :
            getCheatsheet(id)' # getCheatsheet(id) =>
            InvalidatedBy(MutationOfStep, CheatsheetOfStep, "cheatsheet", id)
       /\ \A id \in usedCheatsheetIds :
            listEntries(id)' # listEntries(id) =>
            InvalidatedBy(MutationOfStep, CheatsheetOfStep, "entries", id)]_vars

\* C24: no failure of a store request is swallowed; in particular a purge
\* one of whose requests has failed (the deletion of the entries in cloud
\* mode included) does not complete as a success, with its onSuccess and the
\* "Permanently deleted" notification, but reports an error.
FailedRequestsReported ==
    purgeOp.pc = "done" =>
        \A i \in 1..Len(purgeOp.issued) : purgeOp.issued[i].ok

\* C25: when the text of the response contains brace-delimited blocks,
\* generate extracts the first one, from the first "{" to the "}" matching
\* it, wherever it is in the text, and returns the fields of that block:
\* what follows the first block does not change the result.
Count(content, token, from, to) ==
    Cardinality({ k \in from..to : content[k] = token })

FirstOpen(content) ==
    CHOOSE i \in 1..Len(content) :
        content[i] = "{" /\ \A k \in 1..(i - 1) : content[k] # "{"

Balanced(content, from, to) ==
    Count(content, "{", from, to) = Count(content, "}", from, to)

HasFirstBlock(content) ==
    /\ \E i \in 1..Len(content) : content[i] = "{"
    /\ \E j \in FirstOpen(content)..Len(content) : Balanced(content, FirstOpen(content), j)

FirstBlock(content) ==
    LET first == FirstOpen(content)
        close == CHOOSE j \in first..Len(content) :
                    /\ Balanced(content, first, j)
                    /\ \A k \in first..(j - 1) : ~Balanced(content, first, k)
    IN SubSeq(content, first, close)

FirstBlockExtracted ==
    (/\ generateOp.pc = "returned"
     /\ generateOp.status = "ok"
     /\ HasFirstBlock(generateOp.content)
     /\ Parses(FirstBlock(generateOp.content))) =>
    generateOp.result =
        Some(ParsedResult(FirstBlock(generateOp.content), generateOp.language))

\* C26: a drag of entry a onto entry b of the same displayed group, which
\* moves a from index i to index j of the group's displayed list, submits a
\* batch that gives every entry of the loaded list exactly one position and
\* uses each of 0..n-1 once; in the order of the new positions the group is
\* its old list with a taken out at i and put back at j, and all entries
\* other than a keep their relative order, in this and in every other group.
IdsOf(entries) == [k \in 1..Len(entries) |-> entries[k].id]

Without(ids, id) ==
    LET Other(x) == x # id
    IN SelectSeq(ids, Other)

GroupOf(entries, member) ==
    LET InGroup(e) == SameGroup(e, member)
    IN IdsOf(SelectSeq(entries, InGroup))

IndexIn(ids, id) == CHOOSE k \in 1..Len(ids) : ids[k] = id

Reinserted(ids, i, j) ==
    LET rest == SubSeq(ids, 1, i - 1) \o SubSeq(ids, i + 1, Len(ids))
    IN SubSeq(rest, 1, j - 1) \o <<ids[i]>> \o SubSeq(rest, j, Len(rest))

\* The entries in the order of the positions the batch gives them.
OrderOfBatch(entries, updates) ==
    [k \in 1..Len(entries) |->
        LET id == (CHOOSE u \in 1..Len(updates) : updates[u].position = k - 1)
        IN entries[findIndex(entries, updates[id].id)]]

DragBatch(entries, activeId, overId) ==
    updatesOf(arrayMove(entries, findIndex(entries, activeId), findIndex(entries, overId)))

DragBatchCorrect(entries, activeId, overId) ==
    LET a == entries[findIndex(entries, activeId)]
        updates == DragBatch(entries, activeId, overId)
        group == GroupOf(entries, a)
        order == OrderOfBatch(entries, updates)
    IN /\ Len(updates) = Len(entries)
       /\ \A k \in 1..Len(entries) :
             Cardinality({ u \in 1..Len(updates) : updates[u].id = entries[k].id }) = 1
       /\ \A p \in 0..(Len(entries) - 1) :
             Cardinality({ u \in 1..Len(updates) : updates[u].position = p }) = 1
       /\ GroupOf(order, a) =
             Reinserted(group, IndexIn(group, activeId), IndexIn(group, overId))
       /\ Without(IdsOf(order), activeId) = Without(IdsOf(entries), activeId)

Draggable(entries, activeId, overId) ==
    /\ activeId # overId
    /\ findIndex(entries, activeId) # 0
    /\ findIndex(entries, overId) # 0
    /\ SameGroup(entries[findIndex(entries, activeId)], entries[findIndex(entries, overId)])

DragStep == reorderOp.pc = "idle" /\ reorderOp' # reorderOp

\* The drags the submitted batch is the batch of.
DragsOf(entries, updates) ==
    { d \in DragEntryIds \X DragEntryIds :
        Draggable(entries, d[1], d[2]) /\ updates = DragBatch(entries, d[1], d[2]) }

DragMovesWithinGroup ==
    [][DragStep =>
         LET entries == The(entriesQuery[reorderOp'.cheatsheet_id])
         IN /\ DragsOf(entries, reorderOp'.updates) # {}
            /\ \A d \in DragsOf(entries, reorderOp'.updates) :
                  DragBatchCorrect(entries, d[1], d[2])]_vars

\* Entry 1 has been dragged onto entry 3 of its group while entry 2, of the
\* other group, lies between them: the batch puts 2 first, then 3, then 1.
DragMovesWithinGroupWitness ==
    /\ reorderOp.pc # "idle"
    /\ entriesQuery[1] # Null
    /\ IdsOf(The(entriesQuery[1])) = <<1, 2, 3>>
    /\ SameGroup(The(entriesQuery[1])[1], The(entriesQuery[1])[3])
    /\ ~SameGroup(The(entriesQuery[1])[1], The(entriesQuery[1])[2])
    /\ reorderOp.updates = <<[id |-> 2, position |-> 0], [id |-> 3, position |-> 1],
                              [id |-> 1, position |-> 2]>>

\* C27: in guest mode a reorder writes positions only, under any
\* interleaving with deleteEntry and updateEntry: a step of the reorder
\* stores no entry that was not stored before the step (an entry deleted
\* while the reorder runs stays deleted), and changes no field other than
\* position of the entry it writes.
ReorderWriteStep == reorderOp.pc = "put" /\ reorderOp' # reorderOp

ReorderWritesPositionsOnly ==
    [][ReorderWriteStep =>
         /\ DOMAIN localEntries' = DOMAIN localEntries
         /\ \A id \in DOMAIN localEntries :
               [localEntries'[id] EXCEPT !.position = 0] =
               [localEntries[id] EXCEPT !.position = 0]]_vars

\* C28: starting from an empty cheatsheet, after any sequence of add, delete
\* and drag actions each of which starts after the previous one's write and
\* refetch have completed (and none of whose requests fails), no two entries
\* of the cheatsheet have the same position and every position is a
\* non-negative integer.
StoredEntries == IF UseRemote THEN remoteEntries ELSE localEntries

LoadFailed ==
    /\ configLoaded
    /\ isLoading
    /\ config = EmptyConfig
    /\ configStore # Null
    /\ The(configStore) # EmptyConfig

FailedLoadWritesNothing ==
    [][(LoadFailed /\ config' = config) => configStore' = configStore]_vars

\* C30: once the read of AppConfig has completed, successfully or not,
\* isLoading eventually becomes false: in guest mode, in cloud mode when the
\* session check yields a session, in cloud mode when it yields none, and
\* when constructing the remote client throws.
LoadingGateOpens == configLoaded ~> ~isLoading

\* The stored URL is one createClient rejects: the client effect has run, no
\* client exists, and the gate is open on the sign-in screen.
LoadingGateOpensWitness ==
    /\ configLoaded
    /\ mode = "cloud"
    /\ ~IsUrl(The(config.supabaseUrl))
    /\ "init" \notin effects
    /\ supabaseClient = Null
    /\ ~isLoading

====
